---- MODULE Spec2Model ----
(***************************************************************************)
(* A model of the realtime-agents demo application: the transcript store   *)
(* (TranscriptContext), the session-history handlers                       *)
(* (useHandleSessionHistory), the moderation guardrail, guardrailOutput, the supervisor     *)
(* escalation loop (supervisorAgent.ts) and the session / agent-selection  *)
(* state of App and useRealtimeSession.                                    *)
(*                                                                         *)
(* Strings that the code concatenates are modelled as sequences of tokens  *)
(* (one-character strings and a few fixed multi-character literals), so    *)
(* that '+' is \o and the empty string is << >>.  An absent (undefined)    *)
(* string is the one-token sequence NoText.  Item ids are pairs            *)
(* <<namespace, n>>: ids chosen by the server, ids made by uuidv4() for a  *)
(* breadcrumb ("breadcrumb-<uuid>") and ids made by uuidv4() for a         *)
(* simulated message.                                                      *)
(***************************************************************************)
EXTENDS Integers, Sequences, FiniteSets, TLC

VARIABLES
  transcriptItems,   \* TranscriptProvider state: the array of TranscriptItem
  history,           \* the session history array handed to handlers in details.context.history
  nextUuid,          \* number of uuidv4() values drawn so far (each draw is fresh)
  guardrail,         \* per server item: the output guardrail run of the SDK
  guardrailOutput,   \* per server item: what the guardrail's execute settled with
  loggedEvents,      \* EventProvider state: the array of LoggedEvent
  deltaLog,          \* per message id: text at the last non-delta write, deltas since (history variable)
  script,            \* supervisor: what each request to /api/responses will be answered with
  hasBreadcrumb,     \* supervisor: details.context carries addTranscriptBreadcrumb
  supPc,             \* supervisor: "idle", "awaiting" (a fetch is in flight) or "done"
  requests,          \* supervisor: number of requests issued
  bodyInput,         \* supervisor: the items pushed onto body.input
  supLog,            \* supervisor: requests and local dispatches in order (history variable)
  supResult,         \* supervisor: how execute settled
  agentConfig,       \* App: the agentConfig URL parameter ("" when absent)
  selectedAgentName, \* App: useState('') ; "undefined" stands for undefined
  selectedAgentConfigSet, \* App: "null" or the key of the scenario whose agents it holds
  sessionStatus,     \* App: useState('DISCONNECTED')
  status,            \* useRealtimeSession: useState('DISCONNECTED')
  handoffTriggeredRef,
  sessionRef,        \* useRealtimeSession: "null" or the session, named by its root agent
  connectPc,         \* connectToRealtime in flight: "none", "fetching_key", "sdk_connecting"
  pendingEffects,    \* effects whose dependencies changed and that have not run yet
  sentEvents,        \* events handed to the session transport, in order
  connects,          \* connectToRealtime calls so far
  handoffs,          \* agent_handoff events so far
  agentHandoffs,     \* agentConfigs: each constructed RealtimeAgent's handoffs array
  scenario,          \* agentConfigs: the exported scenario array (agent names), << >> before the export
  CURRENT_CART,      \* intelligentMaterialOrdering.ts: the module's cart array
  now,               \* Date.now()
  toolCalls,         \* tool calls of the ordering agents so far: session, tool, input (history variable)
  toolResult,        \* what the last tool call returned
  isPTTActive,       \* App: useState(false), the push-to-talk checkbox
  isPTTUserSpeaking, \* App: useState(false)
  sentSessions,      \* for each entry of sentEvents, the connection it was sent on (history variable)
  createdSessions    \* the RealtimeSession objects constructed so far; sessionRef.current, when set, is the last

transcriptVars ==
  <<transcriptItems, history, nextUuid, guardrail, guardrailOutput, loggedEvents, deltaLog>>

supVars == <<script, hasBreadcrumb, supPc, requests, bodyInput, supLog, supResult>>

scenarioVars == <<agentHandoffs, scenario>>

cartVars == <<CURRENT_CART, now, toolCalls, toolResult>>

pttVars == <<isPTTActive, isPTTUserSpeaking, sentSessions>>

appVars ==
  <<agentConfig, selectedAgentName, selectedAgentConfigSet, sessionStatus, status,
    handoffTriggeredRef, sessionRef, connectPc, pendingEffects, sentEvents,
    connects, handoffs, scenarioVars, cartVars, pttVars, createdSessions>>

vars == <<transcriptVars, supVars, appVars>>

(* ------------------------------ bounds -------------------------------- *)

MaxTranscript == 5      \* transcript entries created in one behaviour
MaxTextLen == 2         \* tokens of a message text grown by deltas
MaxUuid == 3            \* uuidv4() draws in one behaviour
MaxScript == 3          \* responses the supervisor's server has ready
MaxConnects == 2        \* connectToRealtime calls in one behaviour
MaxHandoffs == 2        \* agent_handoff events in one behaviour
MaxEdges == 2           \* entries of one agent's handoffs array
MaxLogged == 7          \* entries of the event log written by transport events
MaxCart == 2            \* items in the cart
MaxClock == 1           \* milliseconds Date.now() advances in one behaviour
MaxToolCalls == 3       \* tool calls of the ordering agents in one behaviour
MaxSent == 12           \* events handed to the transport while the push-to-talk controls act
MaxTalkLog == 18        \* entries of the event log while the talk button acts

(* ------------------------------ values -------------------------------- *)

NoText == <<"undefined">>
Newline == <<"\n">>
Inaudible == <<"[inaudible]">>
Transcribing == <<"[Transcribing...]">>
FailureOpen == "Failure Details: {"
FailureClose == "}"

ItemIds == {<<"item", 1>>, <<"item", 2>>}
Fragments == {<<"a">>, <<"b">>}
Roles == {"user", "assistant"}

\* src/app/hooks/useRealtimeSession.ts:325-330
MODERATION_CATEGORIES == {"OFFENSIVE", "OFF_BRAND", "VIOLENCE", "NONE"}

NoGuardrailResult ==
  [status |-> "undefined", category |-> "undefined", rationale |-> "undefined",
   testText |-> "undefined"]

(* ------------------------- sequence helpers --------------------------- *)

RECURSIVE Concat(_)
Concat(ss) == IF ss = << >> THEN << >> ELSE Head(ss) \o Concat(Tail(ss))

RECURSIVE Join(_, _)
Join(ss, sep) ==
  IF ss = << >> THEN << >>
  ELSE IF Len(ss) = 1 THEN Head(ss)
  ELSE Head(ss) \o sep \o Join(Tail(ss), sep)

Reverse(s) == [i \in 1..Len(s) |-> s[Len(s) + 1 - i]]

\* Array.prototype.find / findIndex: the first index whose element satisfies P, 0 if none
FindIndex(s, P(_)) ==
  IF \E i \in 1..Len(s) : P(s[i])
  THEN CHOOSE i \in 1..Len(s) : P(s[i]) /\ \A j \in 1..(i - 1) : ~P(s[j])
  ELSE 0

\* A string the code tests for truth: neither empty nor undefined
Truthy(name) == name # "" /\ name # "undefined"

Elements(seq) == {seq[i] : i \in 1..Len(seq)}

(* --------------------------- TranscriptContext ------------------------ *)

\* A faulty variant: the entry is appended whether or not the id has a message
addTranscriptMessageMissingDedup(prev, itemId, role, text, isHidden) ==
  Append(prev,
    [itemId |-> itemId, type |-> "MESSAGE", role |-> role,
     title |-> IF text = NoText THEN << >> ELSE text, data |-> NoText,
     expanded |-> FALSE, status |-> "IN_PROGRESS", isHidden |-> isHidden,
     guardrailResult |-> NoGuardrailResult])

\* addTranscriptMessage's state updater; text and isHidden default to '' and false
addTranscriptMessage(prev, itemId, role, text, isHidden) ==
  IF \E i \in 1..Len(prev) : prev[i].itemId = itemId /\ prev[i].type = "MESSAGE"
  THEN prev
  ELSE Append(prev,
    [itemId |-> itemId, type |-> "MESSAGE", role |-> role,
     title |-> IF text = NoText THEN << >> ELSE text, data |-> NoText,
     expanded |-> FALSE, status |-> "IN_PROGRESS", isHidden |-> isHidden,
     guardrailResult |-> NoGuardrailResult])

\* A faulty variant: a delta goes in front of the text
updateTranscriptMessagePrepends(prev, itemId, newText, append) ==
  [i \in 1..Len(prev) |->
    IF prev[i].itemId = itemId /\ prev[i].type = "MESSAGE"
    THEN [prev[i] EXCEPT !.title = IF append THEN newText \o @ ELSE newText]
    ELSE prev[i]]

\* updateTranscriptMessage's state updater
updateTranscriptMessage(prev, itemId, newText, append) ==
  [i \in 1..Len(prev) |->
    IF prev[i].itemId = itemId /\ prev[i].type = "MESSAGE"
    THEN [prev[i] EXCEPT !.title = IF append THEN @ \o newText ELSE newText]
    ELSE prev[i]]

\* A faulty variant: every breadcrumb under one id
addTranscriptBreadcrumbFixedId(prev, uuid, title, data) ==
  Append(prev,
    [itemId |-> <<"breadcrumb", 0>>, type |-> "BREADCRUMB", role |-> "undefined",
     title |-> title, data |-> data,
     expanded |-> FALSE, status |-> "DONE", isHidden |-> FALSE,
     guardrailResult |-> NoGuardrailResult])

\* A faulty variant: a breadcrumb that repeats a title and its data is skipped
addTranscriptBreadcrumbDeduplicates(prev, uuid, title, data) ==
  IF \E i \in 1..Len(prev) :
       prev[i].type = "BREADCRUMB" /\ prev[i].title = title /\ prev[i].data = data
  THEN prev
  ELSE Append(prev,
    [itemId |-> <<"breadcrumb", uuid>>, type |-> "BREADCRUMB", role |-> "undefined",
     title |-> title, data |-> data,
     expanded |-> FALSE, status |-> "DONE", isHidden |-> FALSE,
     guardrailResult |-> NoGuardrailResult])

\* addTranscriptBreadcrumb's state updater; uuid is the value uuidv4() returned
addTranscriptBreadcrumb(prev, uuid, title, data) ==
  Append(prev,
    [itemId |-> <<"breadcrumb", uuid>>, type |-> "BREADCRUMB", role |-> "undefined",
     title |-> title, data |-> data,
     expanded |-> FALSE, status |-> "DONE", isHidden |-> FALSE,
     guardrailResult |-> NoGuardrailResult])

\* toggleTranscriptItemExpand's state updater
toggleTranscriptItemExpand(prev, itemId) ==
  [i \in 1..Len(prev) |->
    IF prev[i].itemId = itemId
    THEN [prev[i] EXCEPT !.expanded = ~@]
    ELSE prev[i]]

\* updateTranscriptItem's state updater, for the two property sets the code passes
updateTranscriptItemStatus(prev, itemId, newStatus) ==
  [i \in 1..Len(prev) |->
    IF prev[i].itemId = itemId THEN [prev[i] EXCEPT !.status = newStatus] ELSE prev[i]]

updateTranscriptItemGuardrail(prev, itemId, result) ==
  [i \in 1..Len(prev) |->
    IF prev[i].itemId = itemId THEN [prev[i] EXCEPT !.guardrailResult = result]
    ELSE prev[i]]

(* ------------------------------ EventContext -------------------------- *)

\* An event object without an event_id
NoEventId == <<"undefined", 0>>

\* A faulty variant: the new entry goes in front
addLoggedEventPrepends(prev, direction, eventName, event_id) ==
  <<[id |-> IF event_id # NoEventId THEN event_id ELSE <<"uuid", Len(prev) + 1>>,
     direction |-> direction, eventName |-> eventName, expanded |-> FALSE]>> \o prev

\* addLoggedEvent's state updater (logClientEvent / logServerEvent name the event);
\* the id is eventData.event_id or, without one, a fresh uuidv4(), named here by
\* the position the entry takes
addLoggedEvent(prev, direction, eventName, event_id) ==
  Append(prev,
    [id |-> IF event_id # NoEventId THEN event_id ELSE <<"uuid", Len(prev) + 1>>,
     direction |-> direction, eventName |-> eventName, expanded |-> FALSE])

\* toggleExpand's state updater
toggleExpand(prev, id) ==
  [i \in 1..Len(prev) |->
    IF prev[i].id = id THEN [prev[i] EXCEPT !.expanded = ~@] ELSE prev[i]]

(* ----------------------- useHandleSessionHistory ---------------------- *)

\* One content part contributes its text (input_text), its transcript (audio) or ''
PartText(c) ==
  IF c.type \in {"input_text", "audio"} /\ c.text # NoText THEN c.text ELSE << >>

RECURSIVE NonEmptyPartTexts(_)
NonEmptyPartTexts(content) ==
  IF content = << >> THEN << >>
  ELSE IF PartText(Head(content)) # << >>
       THEN <<PartText(Head(content))>> \o NonEmptyPartTexts(Tail(content))
       ELSE NonEmptyPartTexts(Tail(content))

extractMessageText(content) == Join(NonEmptyPartTexts(content), Newline)

\* /Failure Details: (\{.*?\})/ : the leftmost opening token that a closing token
\* follows on the same line, up to the nearest such closing token
MatchStart(text) ==
  FindIndex([i \in 1..Len(text) |-> i],
    LAMBDA i : /\ text[i] = FailureOpen
               /\ \E j \in (i + 1)..Len(text) :
                     /\ text[j] = FailureClose
                     /\ \A k \in (i + 1)..(j - 1) : text[k] # "\n")

MatchEnd(text) ==
  CHOOSE j \in (MatchStart(text) + 1)..Len(text) :
    /\ text[j] = FailureClose
    /\ \A k \in (MatchStart(text) + 1)..(j - 1) : text[k] # FailureClose

sketchilyDetectGuardrailMessage(text) ==
  IF MatchStart(text) = 0 THEN NoText
  ELSE <<"{">> \o SubSeq(text, MatchStart(text) + 1, MatchEnd(text) - 1) \o <<"}">>

\* JSON.parse succeeds on the captured group: '{}' or an object with one member
JsonMember == "\"k\":1"
JsonParses(captured) == captured \in {<<"{", "}">>, <<"{", JsonMember, "}">>}

\* The transcriptItems that the handlers kept in handlersRef see: useRef keeps the
\* handlers of the first render, which closed over the initial state
capturedTranscriptItems == << >>

HasMessage(items, itemId) ==
  \E i \in 1..Len(items) : items[i].itemId = itemId /\ items[i].type = "MESSAGE"

\* The entry that Array.prototype.find returns for an itemId known to be present
EntryOf(items, itemId) ==
  items[FindIndex(items, LAMBDA e : e.itemId = itemId)]

\* find(c => c.type === 'function_call' && c.name === name) over the history
extractFunctionCallByName(name, content) ==
  FindIndex(content, LAMBDA c : c.type = "function_call" /\ c.name = name)

\* A faulty variant: the search runs from the far end of the reversed array
extractLastAssistantMessageFromOldest(reversed) ==
  IF \E i \in 1..Len(reversed) : reversed[i].type = "message" /\ reversed[i].role = "assistant"
  THEN CHOOSE i \in 1..Len(reversed) :
         /\ reversed[i].type = "message" /\ reversed[i].role = "assistant"
         /\ \A j \in (i + 1)..Len(reversed) :
              ~(reversed[j].type = "message" /\ reversed[j].role = "assistant")
  ELSE 0

\* history.reverse().find(...): the index, in the reversed array, of the most
\* recent assistant message (0: none)
extractLastAssistantMessage(reversed) ==
  FindIndex(reversed, LAMBDA c : c.type = "message" /\ c.role = "assistant")

\* handleHistoryAdded: what the handler does with an item
HistoryAddedText(item) ==
  IF item.role = "user" /\ extractMessageText(item.content) = << >>
  THEN Transcribing
  ELSE extractMessageText(item.content)

HistoryAddedKind(item) ==
  IF item.type # "message" \/ item.role = "undefined" THEN "ignored"
  ELSE IF sketchilyDetectGuardrailMessage(HistoryAddedText(item)) = NoText THEN "message"
  ELSE IF JsonParses(sketchilyDetectGuardrailMessage(HistoryAddedText(item)))
       THEN "breadcrumb"
       ELSE "throws"

handleHistoryAdded(prev, uuid, item) ==
  CASE HistoryAddedKind(item) = "message" ->
         addTranscriptMessage(prev, item.itemId, item.role, HistoryAddedText(item), FALSE)
    [] HistoryAddedKind(item) = "breadcrumb" ->
         addTranscriptBreadcrumb(prev, uuid, <<"Output Guardrail Active">>,
           sketchilyDetectGuardrailMessage(HistoryAddedText(item)))
    [] OTHER -> prev

\* handleHistoryUpdated: items.forEach(...), one updateTranscriptMessage per item with text
RECURSIVE handleHistoryUpdated(_, _)
handleHistoryUpdated(prev, items) ==
  IF items = << >> THEN prev
  ELSE handleHistoryUpdated(
         IF Head(items).type = "message" /\ extractMessageText(Head(items).content) # << >>
         THEN updateTranscriptMessage(prev, Head(items).itemId,
                extractMessageText(Head(items).content), FALSE)
         ELSE prev,
         Tail(items))

\* handleTranscriptionDelta; NoId is a missing item_id, NoText a missing delta
NoId == <<"undefined", 0>>

handleTranscriptionDelta(prev, item_id, delta) ==
  IF item_id # NoId
  THEN updateTranscriptMessage(prev, item_id, IF delta = NoText THEN << >> ELSE delta, TRUE)
  ELSE prev

\* A faulty variant: only a missing transcript becomes '[inaudible]'
finalTranscriptKeepsEmpty(transcript) ==
  IF transcript = NoText THEN Inaudible ELSE transcript

\* handleTranscriptionCompleted
finalTranscript(transcript) ==
  IF transcript = NoText \/ transcript = << >> \/ transcript = Newline
  THEN Inaudible
  ELSE transcript

DefaultGuardrailResult ==
  [status |-> "DONE", category |-> "NONE", rationale |-> "", testText |-> "undefined"]

\* A faulty variant: the default-to-NONE step is taken for every entry there is
PendingSeenWheneverEntry(item_id) ==
  \E i \in 1..Len(transcriptItems) : transcriptItems[i].itemId = item_id

\* The guardrailResult status that the handler reads to decide the default-to-NONE
\* step: that of the entry found in the transcriptItems the handler closed over
PendingSeenByHandler(item_id) ==
  /\ \E i \in 1..Len(capturedTranscriptItems) : capturedTranscriptItems[i].itemId = item_id
  /\ EntryOf(capturedTranscriptItems, item_id).guardrailResult.status = "IN_PROGRESS"

handleTranscriptionCompleted(prev, item_id, transcript) ==
  IF item_id = NoId THEN prev
  ELSE LET updated == updateTranscriptMessage(prev, item_id, finalTranscript(transcript), FALSE)
           done == updateTranscriptItemStatus(updated, item_id, "DONE")
       IN  IF PendingSeenByHandler(item_id)
           THEN updateTranscriptItemGuardrail(done, item_id, DefaultGuardrailResult)
           ELSE done

\* handleGuardrailTripped's transcript update; moderation is the classifier output
\* found by extractModeration, reversed the history after history.reverse()
handleGuardrailTripped(prev, reversed, moderation) ==
  IF extractLastAssistantMessage(reversed) # 0
  THEN updateTranscriptItemGuardrail(prev,
         reversed[extractLastAssistantMessage(reversed)].itemId,
         [status |-> "DONE", category |-> moderation.moderationCategory,
          rationale |-> moderation.moderationRationale, testText |-> moderation.testText])
  ELSE prev

(* ------------------------------ guardrails.ts ------------------------- *)

\* What runGuardrailClassifier does: resolve with a category, or reject (a non-success
\* status, or an output that GuardrailOutputZod does not parse)
ClassifierOutcomes == {"OFFENSIVE", "NONE", "http_error", "parse_error"}

\* Every way the classifier call can go: each category, a non-success status, an
\* output the schema rejects, a rejected fetch, a body that is not JSON
ClassifierAnswers ==
  MODERATION_CATEGORIES \cup {"http_error", "parse_error", "fetch_rejects", "body_not_json"}

\* createModerationGuardrail(...).execute: the rejection is caught
tripwireTriggered(outcome) ==
  outcome \in MODERATION_CATEGORIES /\ outcome # "NONE"

\* runGuardrailClassifier: the parsed output with the tested text, or a rejection
runGuardrailClassifier(outcome) ==
  IF outcome \in MODERATION_CATEGORIES
  THEN [kind |-> "resolved", error |-> "undefined", moderationCategory |-> outcome,
        moderationRationale |-> "r", testText |-> "t"]
  ELSE [kind |-> "rejected", error |-> "undefined", moderationCategory |-> "undefined",
        moderationRationale |-> "undefined", testText |-> "undefined"]

\* A faulty variant: a failed classification trips the wire
executeFailClosed(outcome) ==
  [kind |-> "resolved", tripwireTriggered |-> outcome # "NONE",
   outputInfo |-> [runGuardrailClassifier(outcome) EXCEPT
                     !.error = IF outcome \in MODERATION_CATEGORIES THEN @
                               ELSE "guardrail_failed"]]

\* What execute settles with: try { res = await runGuardrailClassifier(...) } catch
execute(outcome) ==
  LET res == runGuardrailClassifier(outcome)
  IN  IF res.kind = "resolved"
      THEN [kind |-> "resolved", tripwireTriggered |-> tripwireTriggered(outcome),
            outputInfo |-> res]
      ELSE [kind |-> "resolved", tripwireTriggered |-> FALSE,
            outputInfo |-> [res EXCEPT !.error = "guardrail_failed"]]

\* execute has not settled
NoOutput ==
  [kind |-> "pending", tripwireTriggered |-> FALSE,
   outputInfo |-> runGuardrailClassifier("pending")]

(* ----------------------------- event inputs --------------------------- *)

SimIds == {<<"uuid", n>> : n \in 1..MaxUuid}
MsgIds == ItemIds \cup SimIds

Contents ==
  { << >>,
    <<[type |-> "input_text", text |-> <<"a">>]>>,
    <<[type |-> "audio", text |-> <<"b">>]>>,
    <<[type |-> "text", text |-> <<"a">>], [type |-> "audio", text |-> NoText]>>,
    <<[type |-> "input_text", text |-> <<FailureOpen, FailureClose>>]>>,
    <<[type |-> "input_text", text |-> <<FailureOpen, "a", FailureClose>>]>> }

ToolNames == {"lookup"}
ToolArguments == {<<"x">>, <<"y">>}

\* The functionCall of an 'agent_tool_start' or 'agent_tool_end' event
ToolCalls == [name : ToolNames, arguments : ToolArguments]

\* A history item as the session keeps it; its content is delivered with each event
HistoryMessages(ids, roles) ==
  [itemId : ids, type : {"message"}, role : roles,
   name : {"undefined"}, arguments : {NoText}]

HistoryFunctionCalls(ids) ==
  [itemId : ids, type : {"function_call"}, role : {"undefined"},
   name : ToolNames, arguments : ToolArguments]

HistoryIds == {history[i].itemId : i \in 1..Len(history)}

\* Ids the server may use for a new history item: its own, or that of a simulated
\* message sent to it with conversation.item.create
NewHistoryIds ==
  (ItemIds \cup ({transcriptItems[i].itemId : i \in 1..Len(transcriptItems)} \cap SimIds))
    \ HistoryIds

TitleOf(items, itemId) ==
  IF HasMessage(items, itemId)
  THEN items[FindIndex(items, LAMBDA e : e.itemId = itemId /\ e.type = "MESSAGE")].title
  ELSE << >>

\* The history variable deltaLog after a step that wrote the texts of `written`
\* wholesale and appended delta `frag` to `deltaId` (NoId: no delta)
NextDeltaLog(written, deltaId, frag) ==
  [id \in ItemIds |->
    IF id \in written
    THEN [base |-> TitleOf(transcriptItems', id), appended |-> << >>]
    ELSE IF id = deltaId /\ HasMessage(transcriptItems, id)
    THEN [deltaLog[id] EXCEPT !.appended = @ \o frag]
    ELSE deltaLog[id]]

(* ------------------------------- actions ------------------------------ *)

\* Effects run, in the order the component declares them, before the next event
EffectsFlushed == pendingEffects = {}

TranscriptInit ==
  /\ transcriptItems = << >>
  /\ history = << >>
  /\ nextUuid = 0
  /\ guardrail = [id \in ItemIds |-> "idle"]
  /\ guardrailOutput = [id \in ItemIds |-> NoOutput]
  /\ deltaLog = [id \in ItemIds |-> [base |-> << >>, appended |-> << >>]]

\* 'history_added': a new item joins the session history, or the event for an item
\* already in it is delivered again; content is the item's content in this event
HistoryAdded(item, content) ==
  /\ EffectsFlushed
  /\ item.itemId \in NewHistoryIds \/ \E i \in 1..Len(history) : history[i] = item
  /\ LET it == [itemId |-> item.itemId, type |-> item.type, role |-> item.role,
                content |-> content]
         appends == \/ HistoryAddedKind(it) = "breadcrumb"
                    \/ HistoryAddedKind(it) = "message"
                         /\ ~HasMessage(transcriptItems, item.itemId)
     IN  /\ appends => Len(transcriptItems) < MaxTranscript
         /\ HistoryAddedKind(it) = "breadcrumb" => nextUuid < MaxUuid
         /\ history' = IF item.itemId \in NewHistoryIds THEN Append(history, item)
                       ELSE history
         /\ transcriptItems' = handleHistoryAdded(transcriptItems, nextUuid + 1, it)
         /\ nextUuid' = IF HistoryAddedKind(it) = "breadcrumb" THEN nextUuid + 1
                        ELSE nextUuid
         /\ deltaLog' = NextDeltaLog(
               IF HistoryAddedKind(it) = "message"
                    /\ ~HasMessage(transcriptItems, item.itemId)
               THEN {item.itemId} \cap ItemIds ELSE {}, NoId, << >>)
  /\ UNCHANGED <<guardrail, guardrailOutput, loggedEvents, supVars, appVars>>

\* 'history_updated' with a batch of items
HistoryUpdated(items) ==
  /\ EffectsFlushed
  /\ transcriptItems' = handleHistoryUpdated(transcriptItems, items)
  /\ deltaLog' = NextDeltaLog(
        {items[k].itemId : k \in {j \in 1..Len(items) :
            items[j].type = "message" /\ extractMessageText(items[j].content) # << >>}}
          \cap ItemIds,
        NoId, << >>)
  /\ UNCHANGED <<history, nextUuid, guardrail, guardrailOutput, loggedEvents, supVars, appVars>>

\* handleTransportEvent, case 'response.audio_transcript.delta'
TranscriptionDelta(item_id, delta) ==
  /\ EffectsFlushed
  /\ Len(TitleOf(transcriptItems, item_id)) + Len(delta) <= MaxTextLen \/ delta = NoText
  /\ transcriptItems' = handleTranscriptionDelta(transcriptItems, item_id, delta)
  /\ deltaLog' = NextDeltaLog({}, item_id, IF delta = NoText THEN << >> ELSE delta)
  /\ UNCHANGED <<history, nextUuid, guardrail, guardrailOutput, loggedEvents, supVars, appVars>>

\* handleTransportEvent, cases 'conversation.item.input_audio_transcription.completed'
\* and 'response.audio_transcript.done'
TranscriptionCompleted(item_id, transcript) ==
  /\ EffectsFlushed
  /\ transcriptItems' = handleTranscriptionCompleted(transcriptItems, item_id, transcript)
  /\ deltaLog' = NextDeltaLog({item_id} \cap ItemIds, NoId, << >>)
  /\ UNCHANGED <<history, nextUuid, guardrail, guardrailOutput, loggedEvents, supVars, appVars>>

\* 'agent_tool_start': a breadcrumb for the function call of that name in the history
AgentToolStart(functionCall) ==
  /\ EffectsFlushed
  /\ Len(transcriptItems) < MaxTranscript /\ nextUuid < MaxUuid
  /\ LET k == extractFunctionCallByName(functionCall.name, history)
     IN  transcriptItems' = addTranscriptBreadcrumb(transcriptItems, nextUuid + 1,
           <<"function call: ", IF k = 0 THEN "undefined" ELSE history[k].name>>,
           IF k = 0 THEN NoText ELSE history[k].arguments)
  /\ nextUuid' = nextUuid + 1
  /\ UNCHANGED <<history, guardrail, guardrailOutput, loggedEvents, deltaLog, supVars, appVars>>

\* 'agent_tool_end': a breadcrumb with the tool's result
AgentToolEnd(functionCall, result) ==
  /\ EffectsFlushed
  /\ Len(transcriptItems) < MaxTranscript /\ nextUuid < MaxUuid
  /\ LET k == extractFunctionCallByName(functionCall.name, history)
     IN  transcriptItems' = addTranscriptBreadcrumb(transcriptItems, nextUuid + 1,
           <<"function call result: ", IF k = 0 THEN "undefined" ELSE history[k].name>>,
           result)
  /\ nextUuid' = nextUuid + 1
  /\ UNCHANGED <<history, guardrail, guardrailOutput, loggedEvents, deltaLog, supVars, appVars>>

\* The SDK starts the output guardrail on the text of an assistant message
GuardrailRun(id) ==
  /\ EffectsFlushed
  /\ guardrail[id] = "idle"
  /\ \E i \in 1..Len(history) :
        history[i].itemId = id /\ history[i].type = "message"
          /\ history[i].role = "assistant"
  /\ guardrail' = [guardrail EXCEPT ![id] = "running"]
  /\ UNCHANGED <<transcriptItems, history, nextUuid, guardrailOutput, loggedEvents,
                 deltaLog, supVars, appVars>>

\* The guardrail's execute settles; when the tripwire is triggered the SDK emits
\* 'guardrail_tripped', whose handler reverses details.context.history in place
GuardrailResolve(id, outcome) ==
  /\ EffectsFlushed
  /\ guardrail[id] = "running"
  /\ guardrail' = [guardrail EXCEPT ![id] =
        IF outcome \in MODERATION_CATEGORIES THEN outcome ELSE "failed"]
  /\ guardrailOutput' = [guardrailOutput EXCEPT ![id] = execute(outcome)]
  /\ IF execute(outcome).tripwireTriggered
     THEN /\ loggedEvents' = addLoggedEvent(loggedEvents, "server", "guardrail_tripped", NoEventId)
          /\ history' = Reverse(history)
          /\ transcriptItems' = handleGuardrailTripped(transcriptItems, Reverse(history),
                [moderationCategory |-> outcome, moderationRationale |-> "r",
                 testText |-> "t"])
     ELSE UNCHANGED <<loggedEvents, history, transcriptItems>>
  /\ UNCHANGED <<nextUuid, deltaLog, supVars, appVars>>

\* The transport event types that handleTransportEvent hands to no history handler
OtherTransportTypes == {"response.done", "input_audio_buffer.speech_started"}

\* handleTransportEvent, default case: logServerEvent(event); the server numbers
\* its events, named here by the position the entry takes
OtherTransportEvent(type, withEventId) ==
  /\ EffectsFlushed
  /\ Len(loggedEvents) < MaxLogged
  /\ loggedEvents' = addLoggedEvent(loggedEvents, "server", type,
        IF withEventId THEN <<"event", Len(loggedEvents) + 1>> ELSE NoEventId)
  /\ UNCHANGED <<transcriptItems, history, nextUuid, guardrail, guardrailOutput, deltaLog, supVars, appVars>>

\* A click on an entry of the Events pane
ToggleExpand(i) ==
  /\ EffectsFlushed
  /\ loggedEvents' = toggleExpand(loggedEvents, loggedEvents[i].id)
  /\ UNCHANGED <<transcriptItems, history, nextUuid, guardrail, guardrailOutput, deltaLog, supVars, appVars>>

(* ----------------------- chatSupervisor/supervisorAgent.ts ------------- *)

getToolResponse(fName) ==
  CASE fName = "getContractorAccountInfo" -> <<"exampleAccountInfo">>
    [] fName = "lookupProcurementPolicy" -> <<"examplePolicyDocs">>
    [] fName = "findVendorsByLocation" -> <<"exampleStoreLocations">>
    [] OTHER -> <<"{result:true}">>

\* JSON.parse(toolCall.arguments || '{}') returns rather than throws
ArgumentsParse(arguments) ==
  arguments = NoText \/ arguments = << >> \/ JsonParses(arguments)

FunctionCall(call_id, name, arguments) ==
  [type |-> "function_call", call_id |-> call_id, name |-> name,
   arguments |-> arguments, content |-> << >>]

Message(content) ==
  [type |-> "message", call_id |-> "undefined", name |-> "undefined",
   arguments |-> NoText, content |-> content]

OutputText(text) == [type |-> "output_text", text |-> text]

\* What a request can be answered with: a completion with output items, a
\* non-success status, a rejected fetch, a body that is not JSON
Completion(output) == [kind |-> "ok", output |-> output]
HttpError == [kind |-> "http_error", output |-> << >>]
FetchRejects == [kind |-> "fetch_rejects", output |-> << >>]
BodyNotJson == [kind |-> "body_not_json", output |-> << >>]

ValidArguments == <<"{", JsonMember, "}">>
InvalidArguments == <<"{", "a">>

Answers ==
  { Completion(<<Message(<<OutputText(<<"x">>)>>)>>),
    Completion(<<Message(<<OutputText(<<"x">>), OutputText(<<"y">>)>>),
                 Message(<<OutputText(<<"z">>)>>)>>),
    Completion(<<FunctionCall("c1", "getContractorAccountInfo", ValidArguments)>>),
    Completion(<<FunctionCall("c1", "lookupProcurementPolicy", NoText),
                 FunctionCall("c2", "findVendorsByLocation", ValidArguments)>>),
    Completion(<<Message(<<OutputText(<<"x">>)>>),
                 FunctionCall("c1", "unlistedTool", ValidArguments)>>),
    Completion(<<FunctionCall("c1", "lookupProcurementPolicy", ValidArguments),
                 FunctionCall("c2", "getContractorAccountInfo", InvalidArguments)>>),
    HttpError, FetchRejects, BodyNotJson }

Scripts == UNION {[1..n -> Answers] : n \in 1..MaxScript}

\* A faulty variant: a non-success status is read as an empty completion
fetchResponsesMessageIgnoresStatus(answer) ==
  CASE answer.kind = "ok" -> [kind |-> "completion", output |-> answer.output]
    [] answer.kind = "http_error" -> [kind |-> "completion", output |-> << >>]
    [] OTHER -> [kind |-> "throws", output |-> << >>]

\* fetchResponsesMessage: {error: ...} on a non-success status, else response.json();
\* a rejected fetch or json() rejects the call
fetchResponsesMessage(answer) ==
  CASE answer.kind = "ok" -> [kind |-> "completion", output |-> answer.output]
    [] answer.kind = "http_error" -> [kind |-> "error", output |-> << >>]
    [] OTHER -> [kind |-> "throws", output |-> << >>]

functionCalls(outputItems) == SelectSeq(outputItems, LAMBDA item : item.type = "function_call")

\* The final text: each message's output_text segments joined by '', the messages
\* joined by a newline
RECURSIVE MessageTexts(_)
MessageTexts(messages) ==
  IF messages = << >> THEN << >>
  ELSE <<Concat([i \in 1..Len(SelectSeq(Head(messages).content,
                                        LAMBDA c : c.type = "output_text")) |->
                  SelectSeq(Head(messages).content,
                            LAMBDA c : c.type = "output_text")[i].text])>>
       \o MessageTexts(Tail(messages))

finalText(outputItems) ==
  Join(MessageTexts(SelectSeq(outputItems, LAMBDA item : item.type = "message")), Newline)

\* A faulty variant: only the first call of a response is dispatched
DispatchedCallsFirstOnly(calls) ==
  SubSeq(calls, 1, IF calls # << >> /\ ArgumentsParse(calls[1].arguments) THEN 1 ELSE 0)

\* The calls of one response that the for loop completes: all of them, or those
\* before the first whose arguments JSON.parse throws on
DispatchedCalls(calls) ==
  SubSeq(calls, 1,
    IF \E i \in 1..Len(calls) : ~ArgumentsParse(calls[i].arguments)
    THEN FindIndex(calls, LAMBDA c : ~ArgumentsParse(c.arguments)) - 1
    ELSE Len(calls))

LoopThrows(calls) == \E i \in 1..Len(calls) : ~ArgumentsParse(calls[i].arguments)

\* A faulty variant: the breadcrumb of the call and none of its result
RECURSIVE SupervisorBreadcrumbsCallOnly(_, _, _)
SupervisorBreadcrumbsCallOnly(prev, uuid, calls) ==
  IF calls = << >> THEN prev
  ELSE SupervisorBreadcrumbsCallOnly(
         addTranscriptBreadcrumb(prev, uuid + 1,
           <<"[supervisorAgent] function call: ", Head(calls).name>>,
           IF Head(calls).arguments \in {NoText, << >>} THEN <<"{", "}">>
           ELSE Head(calls).arguments),
         uuid + 2, Tail(calls))

\* The two breadcrumbs of each dispatched call, through the injected callback
RECURSIVE SupervisorBreadcrumbs(_, _, _)
SupervisorBreadcrumbs(prev, uuid, calls) ==
  IF calls = << >> THEN prev
  ELSE SupervisorBreadcrumbs(
         addTranscriptBreadcrumb(
           addTranscriptBreadcrumb(prev, uuid + 1,
             <<"[supervisorAgent] function call: ", Head(calls).name>>,
             IF Head(calls).arguments \in {NoText, << >>} THEN <<"{", "}">>
             ELSE Head(calls).arguments),
           uuid + 2,
           <<"[supervisorAgent] function call result: ", Head(calls).name>>,
           getToolResponse(Head(calls).name)),
         uuid + 2, Tail(calls))

\* body.input.push(...) of one loop pass
PushedItems(calls) ==
  Concat([i \in 1..Len(calls) |->
    << [type |-> "function_call", call_id |-> calls[i].call_id, name |-> calls[i].name,
        arguments |-> calls[i].arguments, output |-> NoText],
       [type |-> "function_call_output", call_id |-> calls[i].call_id,
        name |-> "undefined", arguments |-> NoText,
        output |-> getToolResponse(calls[i].name)] >>])

Dispatches(calls) == [i \in 1..Len(calls) |-> <<"dispatch", calls[i].name>>]

ErrorMarker == [kind |-> "error", text |-> <<"Something went wrong.">>]
Rejected == [kind |-> "rejected", text |-> << >>]
Pending == [kind |-> "pending", text |-> << >>]

SupIdle ==
  /\ script = << >>
  /\ hasBreadcrumb = TRUE
  /\ supPc = "idle"
  /\ requests = 0
  /\ bodyInput = << >>
  /\ supLog = << >>
  /\ supResult = Pending

SupInit ==
  /\ script \in Scripts
  /\ hasBreadcrumb \in BOOLEAN
  /\ supPc = "idle"
  /\ requests = 0
  /\ bodyInput = << >>
  /\ supLog = << >>
  /\ supResult = Pending

\* execute, called by the session for the chat agent's tool call: build the body and
\* issue the first request
SupExecute ==
  /\ EffectsFlushed
  /\ sessionRef # "null"
  /\ supPc = "idle"
  /\ supPc' = "awaiting"
  /\ requests' = 1
  /\ supLog' = <<<<"request", "1">>>>
  /\ UNCHANGED <<script, hasBreadcrumb, bodyInput, supResult, transcriptVars, appVars>>

RequestEvent(n) == <<"request", ToString(n)>>

\* The request in flight settles and the code runs on to its next await or its return
SupSettle ==
  /\ EffectsFlushed
  /\ supPc = "awaiting"
  /\ requests <= Len(script)
  /\ LET response == fetchResponsesMessage(script[requests])
         calls == functionCalls(response.output)
     IN  CASE response.kind = "throws" ->
                /\ supPc' = "done" /\ supResult' = Rejected
                /\ UNCHANGED <<requests, bodyInput, supLog, transcriptVars>>
           [] response.kind = "error" ->
                /\ supPc' = "done" /\ supResult' = ErrorMarker
                /\ UNCHANGED <<requests, bodyInput, supLog, transcriptVars>>
           [] response.kind = "completion" /\ calls = << >> ->
                /\ supPc' = "done"
                /\ supResult' = [kind |-> "nextResponse", text |-> finalText(response.output)]
                /\ UNCHANGED <<requests, bodyInput, supLog, transcriptVars>>
           [] OTHER ->
                /\ transcriptItems' =
                     IF hasBreadcrumb
                     THEN SupervisorBreadcrumbs(transcriptItems, nextUuid, DispatchedCalls(calls))
                     ELSE transcriptItems
                /\ nextUuid' = IF hasBreadcrumb
                               THEN nextUuid + 2 * Len(DispatchedCalls(calls))
                               ELSE nextUuid
                /\ bodyInput' = bodyInput \o PushedItems(DispatchedCalls(calls))
                /\ IF LoopThrows(calls)
                   THEN /\ supPc' = "done" /\ supResult' = Rejected
                        /\ supLog' = supLog \o Dispatches(DispatchedCalls(calls))
                        /\ UNCHANGED requests
                   ELSE /\ requests' = requests + 1
                        /\ supLog' = supLog \o Dispatches(DispatchedCalls(calls))
                                       \o <<RequestEvent(requests + 1)>>
                        /\ UNCHANGED <<supPc, supResult>>
                /\ UNCHANGED <<history, guardrail, guardrailOutput, loggedEvents, deltaLog>>
  /\ UNCHANGED <<script, hasBreadcrumb, appVars>>


(* ------------------- agentConfigs: building a scenario ----------------- *)

\* The agents a scenario module may construct
AgentNames == {"kojoGreeter", "procurementSpecialist", "emergencyProcurement"}

\* The agents constructed so far: only these can be referred to
Constructed == DOMAIN agentHandoffs

\* Arrays of at most n references to constructed agents
AgentArrays(n) == UNION {[1..k -> Constructed] : k \in 0..n}

\* Nothing of the module has been evaluated
ScenarioInit ==
  /\ agentHandoffs = << >>
  /\ scenario = << >>

\* simpleHandoff.ts evaluated
ScenarioLoaded ==
  /\ agentHandoffs = [a \in {"kojoGreeter", "procurementSpecialist"} |->
                        IF a = "kojoGreeter" THEN <<"procurementSpecialist">> ELSE << >>]
  /\ scenario = <<"kojoGreeter", "procurementSpecialist">>

\* new RealtimeAgent({ name, handoffs: edges, ... })
NewRealtimeAgent(name, edges) ==
  /\ scenario = << >>
  /\ name \notin Constructed
  /\ agentHandoffs' = [a \in Constructed \cup {name} |->
                         IF a = name THEN edges ELSE agentHandoffs[a]]
  /\ UNCHANGED <<scenario, transcriptVars, supVars, agentConfig, selectedAgentName,
                 selectedAgentConfigSet, sessionStatus, status, handoffTriggeredRef,
                 sessionRef, connectPc, pendingEffects, sentEvents, connects, handoffs,
                 cartVars, pttVars, createdSessions>>

\* (agent.handoffs as any).push(...targets)
PushHandoffs(agent, targets) ==
  /\ scenario = << >>
  /\ agent \in Constructed
  /\ targets # << >>
  /\ Len(agentHandoffs[agent]) + Len(targets) <= MaxEdges
  /\ agentHandoffs' = [agentHandoffs EXCEPT ![agent] = @ \o targets]
  /\ UNCHANGED <<scenario, transcriptVars, supVars, agentConfig, selectedAgentName,
                 selectedAgentConfigSet, sessionStatus, status, handoffTriggeredRef,
                 sessionRef, connectPc, pendingEffects, sentEvents, connects, handoffs,
                 cartVars, pttVars, createdSessions>>

\* export const xScenario = [ ...members ]
ExportScenario(members) ==
  /\ scenario = << >>
  /\ members # << >>
  /\ \A i, j \in 1..Len(members) : i # j => members[i] # members[j]
  /\ scenario' = members
  /\ UNCHANGED <<agentHandoffs, transcriptVars, supVars, agentConfig, selectedAgentName,
                 selectedAgentConfigSet, sessionStatus, status, handoffTriggeredRef,
                 sessionRef, connectPc, pendingEffects, sentEvents, connects, handoffs,
                 cartVars, pttVars, createdSessions>>

ScenarioNext ==
  \/ \E name \in AgentNames, edges \in AgentArrays(MaxEdges) :
        NewRealtimeAgent(name, edges)
  \/ \E agent \in AgentNames, targets \in AgentArrays(MaxEdges) :
        PushHandoffs(agent, targets)
  \/ \E members \in AgentArrays(Cardinality(AgentNames)) : ExportScenario(members)

(* ------------------- intelligentMaterialOrdering.ts: the cart ---------- *)

\* MATERIAL_CATALOG[material_type]?.name || material_type
MaterialTypes == {"pvc_pipe", "emt_conduit"}
MaterialName(material_type) ==
  IF material_type = "pvc_pipe" THEN "PVC Pipe" ELSE material_type

\* An optional input is << >> when the call gives none and <<v>> when it gives v
Given(values) == {<< >>} \cup {<<v>> : v \in values}
Quantities == Given({0, 2})

\* item.quantity || 1
QuantityOr1(quantity) == IF quantity = 0 THEN 1 ELSE quantity

\* reduce((sum, item) => sum + (item.quantity || 1), 0)
RECURSIVE TotalLineItems(_)
TotalLineItems(cart) ==
  IF cart = << >> THEN 0
  ELSE QuantityOr1(Head(cart).quantity) + TotalLineItems(Tail(cart))

NoToolResult == [tool |-> "none"]

CartInit ==
  /\ CURRENT_CART = << >>
  /\ now = 0
  /\ toolCalls = << >>
  /\ toolResult = NoToolResult

\* A tool of the agent runs while its session is up; the clock may have advanced
ToolCall(tool, input) ==
  /\ EffectsFlushed
  /\ sessionRef = "intelligentMaterialOrdering" /\ status = "CONNECTED"
  /\ Len(toolCalls) < MaxToolCalls
  /\ toolCalls' = Append(toolCalls, [session |-> connects, tool |-> tool, input |-> input])
  /\ now' \in {t \in {now, now + 1} : t <= MaxClock}
  /\ UNCHANGED <<transcriptVars, supVars, agentConfig, selectedAgentName,
                 selectedAgentConfigSet, sessionStatus, status, handoffTriggeredRef,
                 sessionRef, connectPc, pendingEffects, sentEvents, connects, handoffs,
                 scenarioVars, pttVars, createdSessions>>

\* addToCart.execute
addToCart(material_type, given, random) ==
  /\ Len(CURRENT_CART) < MaxCart
  /\ ToolCall("addToCart", given)
  /\ LET quantity == IF given = << >> THEN 1 ELSE given[1]
         cart_item == [id |-> <<"item", now', random>>, material_type |-> material_type,
                       specifications |-> "specifications", quantity |-> quantity,
                       status |-> "confirmed", missing_fields |-> << >>]
     IN  /\ CURRENT_CART' = Append(CURRENT_CART, cart_item)
         /\ toolResult' = [success |-> TRUE, item_id |-> cart_item.id,
                           cart_item |-> cart_item,
                           material_name |-> MaterialName(material_type),
                           cart_total_items |-> Len(CURRENT_CART'),
                           message |-> <<"Added ", ToString(quantity), "x ",
                                         MaterialName(material_type), " to your cart">>]

\* viewCart.execute
viewCartResult(cart) ==
  [cart_items |-> [i \in 1..Len(cart) |->
                     [id |-> cart[i].id, material_name |-> MaterialName(cart[i].material_type),
                      quantity |-> QuantityOr1(cart[i].quantity),
                      specifications |-> cart[i].specifications, status |-> cart[i].status]],
   total_items |-> Len(cart),
   total_line_items |-> TotalLineItems(cart),
   is_empty |-> Len(cart) = 0]

viewCart ==
  /\ ToolCall("viewCart", << >>)
  /\ toolResult' = viewCartResult(CURRENT_CART)
  /\ UNCHANGED CURRENT_CART

\* removeFromCart.execute
removeFromCart(item_id) ==
  /\ ToolCall("removeFromCart", <<item_id>>)
  /\ CURRENT_CART' = SelectSeq(CURRENT_CART, LAMBDA item : item.id # item_id)
  /\ toolResult' = [success |-> Len(CURRENT_CART') < Len(CURRENT_CART),
                    removed |-> Len(CURRENT_CART') < Len(CURRENT_CART),
                    remaining_items |-> Len(CURRENT_CART')]

\* A faulty variant: total_line_items counts the cart's entries
OrderSubmittedCountsEntries(cart, clock, delivery_date) ==
  [success |-> TRUE, order_number |-> <<"KT-", clock>>,
   order_summary |->
     [order_number |-> <<"KT-", clock>>,
      items |-> [i \in 1..Len(cart) |->
                   [material_name |-> MaterialName(cart[i].material_type),
                    quantity |-> QuantityOr1(cart[i].quantity),
                    specifications |-> cart[i].specifications]],
      delivery_details |-> [address |-> "delivery_address", requested_date |-> delivery_date,
                            special_instructions |-> << >>],
      total_line_items |-> Len(cart),
      submitted_at |-> clock],
   message |-> <<"Order ", <<"KT-", clock>>, " submitted successfully!">>]

\* submitOrder.execute
\* The order submitOrder builds: order_number is `KT-${Date.now()}`, submitted_at the
\* same clock; the call gives the required delivery_address and no special_instructions
OrderSubmitted(cart, clock, delivery_date) ==
  [success |-> TRUE, order_number |-> <<"KT-", clock>>,
   order_summary |->
     [order_number |-> <<"KT-", clock>>,
      items |-> [i \in 1..Len(cart) |->
                   [material_name |-> MaterialName(cart[i].material_type),
                    quantity |-> QuantityOr1(cart[i].quantity),
                    specifications |-> cart[i].specifications]],
      delivery_details |-> [address |-> "delivery_address", requested_date |-> delivery_date,
                            special_instructions |-> << >>],
      total_line_items |-> TotalLineItems(cart),
      submitted_at |-> clock],
   message |-> <<"Order ", <<"KT-", clock>>, " submitted successfully!">>]

submitOrderSkipsEmptyCheck(cart, clock, delivery_date) ==
  OrderSubmitted(cart, clock, delivery_date)

submitOrderResult(cart, clock, delivery_date) ==
  IF Len(cart) = 0
  THEN [success |-> FALSE, error |-> "Cannot submit empty cart"]
  ELSE OrderSubmitted(cart, clock, delivery_date)

submitOrder(delivery_date) ==
  /\ ToolCall("submitOrder", delivery_date)
  /\ toolResult' = submitOrderResult(CURRENT_CART, now', delivery_date)
  /\ CURRENT_CART' = IF toolResult'.success THEN << >> ELSE CURRENT_CART

CartTools ==
  \/ \E material_type \in MaterialTypes, given \in Quantities, random \in {1, 2} :
        addToCart(material_type, given, random)
  \/ viewCart
  \/ \E item_id \in {CURRENT_CART[i].id : i \in 1..Len(CURRENT_CART)} \cup {<<"item", 0, 0>>} :
        removeFromCart(item_id)
  \/ \E delivery_date \in Given({"Monday"}) : submitOrder(delivery_date)

(* ------------- intelligentMaterialOrdering.ts: validateMaterialSpecs --- *)

\* The catalog's entry for PVC pipe; the other entries have the same shape
MATERIAL_CATALOG ==
  [pvc_pipe |->
     [name |-> "PVC Pipe",
      required_fields |-> <<"diameter", "length", "quantity", "pressure_rating">>,
      validation_rules |->
        [diameter |-> [type |-> "enum",
                       values |-> {"1/2\"", "3/4\"", "1\"", "1.25\"", "1.5\"", "2\"", "3\"",
                                   "4\"", "6\"", "8\""},
                       message |-> "Diameter? (1/2\", 3/4\", 1\", 2\", 4\")"],
         length |-> [type |-> "enum", values |-> {"10ft", "20ft"},
                     message |-> "Length? (10ft or 20ft)"],
         quantity |-> [type |-> "number", values |-> {},
                       message |-> "How many pieces?"],
         pressure_rating |-> [type |-> "enum",
                              values |-> {"Schedule 40", "Schedule 80", "DWV", "Class 200",
                                          "Class 315"},
                              message |-> "Pressure rating? (Schedule 40, 80, DWV)"]]]]

\* The keys a specifications object of the model may hold, in the order it holds them
SpecificationKeys == <<"diameter", "length", "quantity", "pressure_rating", "color">>

\* Specifications objects: a text field is "undefined" when the key is absent, the
\* quantity << >>
SpecificationObjects ==
  [diameter : {"undefined", "", "1/2\"", "5\""},
   length : {"undefined", "10ft", "15ft"},
   quantity : Given({0, 3}),
   pressure_rating : {"undefined", "Schedule 40", "Schedule 10"},
   color : {"undefined", "white"}]

\* Object.entries(specifications) has the field
HasKey(specifications, field) ==
  IF field = "quantity" THEN specifications.quantity # << >>
  ELSE specifications[field] # "undefined"

\* specifications[field] is truthy
FieldGiven(specifications, field) ==
  IF field = "quantity"
  THEN specifications.quantity # << >> /\ specifications.quantity[1] # 0
  ELSE Truthy(specifications[field])

\* rule && rule.type === 'enum' && !rule.values.includes(value)
ViolatesEnum(rules, specifications, field) ==
  /\ field \in DOMAIN rules
  /\ rules[field].type = "enum"
  /\ specifications[field] \notin rules[field].values

\* The first loop of execute: the required fields that are not given
MissingFields(catalog_item, specifications) ==
  SelectSeq(catalog_item.required_fields, LAMBDA field : ~FieldGiven(specifications, field))

\* validateMaterialSpecs.execute
validateMaterialSpecs(input) ==
  IF input.material_type \notin DOMAIN MATERIAL_CATALOG
  THEN [is_valid |-> FALSE, error |-> <<"Unknown material type: ", input.material_type>>,
        missing_fields |-> << >>, validation_messages |-> << >>]
  ELSE LET catalog_item == MATERIAL_CATALOG[input.material_type]
           rules == catalog_item.validation_rules
           missing_fields == MissingFields(catalog_item, input.specifications)
           ruled == SelectSeq(missing_fields, LAMBDA field : field \in DOMAIN rules)
           invalid == SelectSeq(SpecificationKeys, LAMBDA field :
                        /\ HasKey(input.specifications, field)
                        /\ ViolatesEnum(rules, input.specifications, field))
       IN  [is_valid |-> Len(missing_fields) = 0,
            missing_fields |-> missing_fields,
            validation_messages |->
              [i \in 1..Len(ruled) |-> <<rules[ruled[i]].message>>]
                \o [i \in 1..Len(invalid) |->
                      <<"Invalid ", invalid[i], ": ", input.specifications[invalid[i]]>>],
            material_name |-> catalog_item.name,
            next_required_field |-> IF missing_fields = << >> THEN "null"
                                    ELSE missing_fields[1]]

SpecsInputs ==
  [material_type : {"pvc_pipe", "emt_conduit"}, specifications : SpecificationObjects]

\* The agent calls the tool with some input
SpecsCalled ==
  /\ toolCalls \in {<<[session |-> 0, tool |-> "validateMaterialSpecs", input |-> input]>> :
                      input \in SpecsInputs}
  /\ CURRENT_CART = << >>
  /\ now = 0
  /\ toolResult = NoToolResult

\* execute settles
SpecsSettles ==
  /\ toolCalls # << >>
  /\ toolCalls[Len(toolCalls)].tool = "validateMaterialSpecs"
  /\ toolResult = NoToolResult
  /\ toolResult' = validateMaterialSpecs(toolCalls[Len(toolCalls)].input)
  /\ UNCHANGED <<CURRENT_CART, now, toolCalls, transcriptVars, supVars, agentConfig,
                 selectedAgentName, selectedAgentConfigSet, sessionStatus, status,
                 handoffTriggeredRef, sessionRef, connectPc, pendingEffects, sentEvents,
                 connects, handoffs, scenarioVars, pttVars, createdSessions>>

(* ------------------- materialOrdering.ts: validateMaterialOrder -------- *)

\* A material type is a sequence of tokens, none of which holds part of 'emt' or
\* 'wire' without being it; toLowerCase() works token by token
toLowerCase(text) ==
  [i \in 1..Len(text) |->
     CASE text[i] = "EMT" -> "emt"
       [] text[i] = "Wire" -> "wire"
       [] OTHER -> text[i]]

includes(text, word) == \E i \in 1..Len(text) : text[i] = word

MinimumWarning == "EMT conduit comes in 10ft sticks. You may want to order 10ft minimum."
MultiplesSuggestion ==
  "EMT conduit is sold in 10-foot lengths. Consider ordering in multiples of 10."

\* specifications?.size and the like: "undefined" when the object or the field is absent
Field(object, field) == IF object = << >> THEN "undefined" ELSE object[1][field]

PushIf(condition, array, value) == IF condition THEN Append(array, value) ELSE array

\* execute with material_type.toLowerCase() already taken
Validation(lowered, input) ==
  LET size == Field(input.specifications, "size")
      grade == Field(input.specifications, "grade")
      rating == Field(input.specifications, "rating")
      address == Field(input.project_info, "job_site_address")
      date == Field(input.project_info, "delivery_date")
      emt == includes(lowered, "emt")
      wire == includes(lowered, "wire")
  IN  [validation_result |->
         [isValid |-> /\ Truthy(size) /\ Truthy(address) /\ Truthy(date)
                      /\ ~(wire /\ ~Truthy(grade)),
          warnings |-> PushIf(emt /\ input.quantity > 0 /\ input.quantity < 10,
                              << >>, MinimumWarning),
          suggestions |-> PushIf(emt, << >>, MultiplesSuggestion),
          missing_fields |->
            PushIf(wire /\ ~Truthy(rating),
              PushIf(wire /\ ~Truthy(grade),
                PushIf(~Truthy(date),
                  PushIf(~Truthy(address),
                    PushIf(~Truthy(size), << >>, "size specification"),
                    "delivery address"),
                  "delivery date"),
                "wire type (THHN, Romex, etc.)"),
              "voltage rating")],
       estimated_cost |-> input.quantity * 15,
       availability |-> "In stock at 3 vendors"]

validateMaterialOrderCaseSensitive(input) == Validation(input.material_type, input)

validateMaterialOrder(input) == Validation(toLowerCase(input.material_type), input)

ValidateInputs ==
  [material_type : {<<"1/2 ", "EMT">>, <<"emt", " conduit">>, <<"THHN ", "Wire">>,
                    <<"copper pipe">>},
   specifications : Given([size : {"undefined", "", "1/2 inch"},
                           grade : {"undefined", "THHN"},
                           rating : {"undefined", "600V"}]),
   quantity : {0, 5, 100},
   project_info : Given([job_site_address : {"undefined", "12 Main St"},
                         delivery_date : {"undefined", "", "Monday"}])]

\* The agent calls the tool with some input
ValidateCalled ==
  /\ toolCalls \in {<<[session |-> 0, tool |-> "validateMaterialOrder", input |-> input]>> :
                      input \in ValidateInputs}
  /\ CURRENT_CART = << >>
  /\ now = 0
  /\ toolResult = NoToolResult

\* execute settles
ValidateSettles ==
  /\ toolCalls # << >>
  /\ toolCalls[Len(toolCalls)].tool = "validateMaterialOrder"
  /\ toolResult = NoToolResult
  /\ toolResult' = validateMaterialOrder(toolCalls[Len(toolCalls)].input)
  /\ UNCHANGED <<CURRENT_CART, now, toolCalls, transcriptVars, supVars, agentConfig,
                 selectedAgentName, selectedAgentConfigSet, sessionStatus, status,
                 handoffTriggeredRef, sessionRef, connectPc, pendingEffects, sentEvents,
                 connects, handoffs, scenarioVars, pttVars, createdSessions>>

(* --------------------------------- App -------------------------------- *)

\* agentConfigs/index.ts: scenario key -> the names of its agents, in order
allAgentSets ==
  [key \in {"simpleHandoff", "customerServiceRetail", "chatSupervisor", "materialOrdering",
            "intelligentMaterialOrdering"} |->
    CASE key = "simpleHandoff" -> <<"kojoGreeter", "procurementSpecialist">>
      [] key = "customerServiceRetail" ->
           <<"authentication", "returns", "sales", "simulatedHuman">>
      [] key = "chatSupervisor" -> <<"chatAgent">>
      [] key = "materialOrdering" -> <<"materialOrdering", "emergencyProcurement">>
      [] key = "intelligentMaterialOrdering" -> <<"intelligentMaterialOrdering">>]

defaultAgentSetKey == "chatSupervisor"

\* App's map of the scenarios it can connect
sdkScenarioMap ==
  [key \in {"simpleHandoff", "customerServiceRetail", "chatSupervisor",
            "intelligentMaterialOrdering"} |->
    CASE key = "simpleHandoff" -> <<"kojoGreeter", "procurementSpecialist">>
      [] key = "customerServiceRetail" ->
           <<"authentication", "returns", "sales", "simulatedHuman">>
      [] key = "chatSupervisor" -> <<"chatAgent">>
      [] key = "intelligentMaterialOrdering" -> <<"intelligentMaterialOrdering">>]

AgentConfigs ==
  {"", "nosuch", "simpleHandoff", "chatSupervisor", "materialOrdering",
   "intelligentMaterialOrdering"}

TransferMarker == "transfer_to_"

\* name.split('transfer_to_')[1]: the text between the first marker and the next
\* one (or the end); undefined when the name holds no marker. Names are token
\* sequences whose segments hold at most one token.
SplitSecond(name) ==
  IF \A i \in 1..Len(name) : name[i] # TransferMarker THEN "undefined"
  ELSE LET rest == SubSeq(name, FindIndex(name, LAMBDA t : t = TransferMarker) + 1, Len(name))
       IN  IF rest = << >> \/ Head(rest) = TransferMarker THEN "" ELSE Head(rest)

\* The last history item of an agent_handoff event: the handoff call to an agent of
\* the scenario or to another name, another function call, or an item with no name
HandoffLastItems(agents) ==
  {[name |-> <<TransferMarker, a>>] : a \in Elements(agents) \cup {"billing"}}
    \cup {[name |-> <<"lookup">>], [name |-> NoText]}

\* The agents handed to the session
ConnectedAgents ==
  IF agentConfig \in DOMAIN sdkScenarioMap THEN sdkScenarioMap[agentConfig] ELSE << >>

\* reorderedAgents[0] in connectToRealtime
RootAgent(agents, name) ==
  IF name \in Elements(agents) THEN name ELSE agents[1]

\* new RealtimeSession(rootAgent, ...): not yet closed, its connect not yet rejected
NewRealtimeSession(rootAgent) == [rootAgent |-> rootAgent, closed |-> FALSE, failed |-> FALSE]

\* updateStatus: the hook's status, the App's through onConnectionChange, a client log
RECURSIVE LogAll(_, _)
LogAll(prev, events) ==
  IF events = << >> THEN prev
  ELSE LogAll(addLoggedEvent(prev, Head(events)[1], Head(events)[2], NoEventId),
              Tail(events))

AppInit ==
  /\ loggedEvents = << >>
  /\ agentConfig \in AgentConfigs
  /\ selectedAgentName = ""
  /\ selectedAgentConfigSet = "null"
  /\ sessionStatus = "DISCONNECTED"
  /\ status = "DISCONNECTED"
  /\ handoffTriggeredRef = FALSE
  /\ sessionRef = "null"
  /\ connectPc = "none"
  /\ pendingEffects = {"mount"}
  /\ sentEvents = << >>
  /\ sentSessions = << >>
  /\ isPTTActive = FALSE
  /\ isPTTUserSpeaking = FALSE
  /\ createdSessions = << >>
  /\ connects = 0
  /\ handoffs = 0

LoggedWhenOpen ==
  LogAll(<< >>, << <<"client", "fetch_session_token_request">>,
                   <<"server", "fetch_session_token_response">>,
                   <<"client", "CONNECTING">>, <<"client", "CONNECTED">> >>)

\* The App of the default scenario once its first connection is up and before the
\* effect on the session status has run
AppOpen ==
  /\ loggedEvents = LoggedWhenOpen
  /\ agentConfig = defaultAgentSetKey
  /\ selectedAgentName = "chatAgent"
  /\ selectedAgentConfigSet = defaultAgentSetKey
  /\ sessionStatus = "CONNECTED"
  /\ status = "CONNECTED"
  /\ handoffTriggeredRef = FALSE
  /\ sessionRef = "chatAgent"
  /\ connectPc = "none"
  /\ pendingEffects = {"agent"}
  /\ sentEvents = << >>
  /\ sentSessions = << >>
  /\ isPTTActive = FALSE
  /\ isPTTUserSpeaking = FALSE
  /\ createdSessions = <<NewRealtimeSession("chatAgent")>>
  /\ connects = 1
  /\ handoffs = 0

\* The effect on searchParams: select the scenario's first agent, or redirect to the
\* default scenario, which loads the page afresh
MountEffect ==
  /\ "mount" \in pendingEffects
  /\ IF agentConfig = "" \/ agentConfig \notin DOMAIN allAgentSets
     THEN /\ agentConfig' = defaultAgentSetKey
          /\ UNCHANGED <<selectedAgentName, selectedAgentConfigSet, pendingEffects>>
     ELSE /\ selectedAgentName' = allAgentSets[agentConfig][1]
          /\ selectedAgentConfigSet' = agentConfig
          /\ pendingEffects' = {"connect", "agent"}
          /\ UNCHANGED agentConfig
  /\ UNCHANGED <<sessionStatus, status, handoffTriggeredRef, sessionRef, connectPc,
                 sentEvents, connects, handoffs, transcriptVars, supVars, scenarioVars, cartVars, pttVars, createdSessions>>

\* connectToRealtime up to its first await (inside fetchEphemeralKey)
connectToRealtime ==
  IF agentConfig \in DOMAIN sdkScenarioMap /\ sessionStatus = "DISCONNECTED"
     /\ connectPc = "none"
  THEN /\ sessionStatus' = "CONNECTING"
       /\ connectPc' = "fetching_key"
       /\ loggedEvents' = addLoggedEvent(loggedEvents, "client", "fetch_session_token_request",
                                        NoEventId)
  ELSE UNCHANGED <<sessionStatus, connectPc, loggedEvents>>

\* The effect on selectedAgentName
ConnectEffect ==
  /\ "connect" \in pendingEffects
  /\ connects < MaxConnects
  /\ pendingEffects' = pendingEffects \ {"connect"}
  /\ IF Truthy(selectedAgentName) /\ sessionStatus = "DISCONNECTED"
     THEN connectToRealtime /\ connects' = connects + 1
     ELSE UNCHANGED <<sessionStatus, connectPc, loggedEvents, connects>>
  /\ UNCHANGED <<agentConfig, selectedAgentName, selectedAgentConfigSet, status,
                 handoffTriggeredRef, sessionRef, sentEvents, handoffs,
                 transcriptItems, history, nextUuid, guardrail, guardrailOutput, deltaLog, supVars, scenarioVars, cartVars, pttVars, createdSessions>>

\* /api/session answers: with a key, connect() runs to its await of the SDK's connect
\* (or returns at once when a session object exists); without one, or when the fetch
\* fails, the status goes back to DISCONNECTED
KeyFetched(outcome) ==
  /\ EffectsFlushed
  /\ connectPc = "fetching_key"
  /\ CASE outcome = "key" /\ sessionRef = "null" ->
            /\ loggedEvents' = LogAll(loggedEvents,
                 << <<"server", "fetch_session_token_response">>, <<"client", "CONNECTING">> >>)
            /\ status' = "CONNECTING"
            /\ sessionStatus' = "CONNECTING"
            /\ sessionRef' = RootAgent(sdkScenarioMap[agentConfig], selectedAgentName)
            /\ createdSessions' = Append(createdSessions, NewRealtimeSession(sessionRef'))
            /\ connectPc' = "sdk_connecting"
       [] outcome = "key" /\ sessionRef # "null" ->
            /\ loggedEvents' = addLoggedEvent(loggedEvents, "server",
                                 "fetch_session_token_response", NoEventId)
            /\ connectPc' = "none"
            /\ UNCHANGED <<status, sessionStatus, sessionRef, createdSessions>>
       [] outcome = "no_key" ->
            /\ loggedEvents' = LogAll(loggedEvents,
                 << <<"server", "fetch_session_token_response">>,
                    <<"client", "error.no_ephemeral_key">> >>)
            /\ sessionStatus' = "DISCONNECTED"
            /\ connectPc' = "none"
            /\ UNCHANGED <<status, sessionRef, createdSessions>>
       [] OTHER ->
            /\ sessionStatus' = "DISCONNECTED"
            /\ connectPc' = "none"
            /\ UNCHANGED <<loggedEvents, status, sessionRef, createdSessions>>
  /\ pendingEffects' = IF sessionStatus' # sessionStatus
                       THEN pendingEffects \cup {"agent"} ELSE pendingEffects
  /\ UNCHANGED <<agentConfig, selectedAgentName, selectedAgentConfigSet,
                 handoffTriggeredRef, sentEvents, connects, handoffs,
                 transcriptItems, history, nextUuid, guardrail, guardrailOutput, deltaLog, supVars, scenarioVars, cartVars, pttVars>>

\* The SDK's connect settles: CONNECTED, or the catch of connectToRealtime
SdkConnectSettles(ok) ==
  /\ EffectsFlushed
  /\ connectPc = "sdk_connecting"
  /\ connectPc' = "none"
  /\ IF ok
     THEN /\ status' = "CONNECTED"
          /\ sessionStatus' = "CONNECTED"
          /\ loggedEvents' = addLoggedEvent(loggedEvents, "client", "CONNECTED", NoEventId)
          /\ UNCHANGED createdSessions
     ELSE /\ sessionStatus' = "DISCONNECTED"
          /\ createdSessions' = [createdSessions EXCEPT ![Len(createdSessions)].failed = TRUE]
          /\ UNCHANGED <<status, loggedEvents>>
  /\ pendingEffects' = IF sessionStatus' # sessionStatus
                       THEN pendingEffects \cup {"agent"} ELSE pendingEffects
  /\ UNCHANGED <<agentConfig, selectedAgentName, selectedAgentConfigSet,
                 handoffTriggeredRef, sessionRef, sentEvents, connects, handoffs,
                 transcriptItems, history, nextUuid, guardrail, guardrailOutput, deltaLog, supVars, scenarioVars, cartVars, pttVars>>

\* sendEvent: handed to the transport when a session object exists
sendEvent(sent, ev) == IF sessionRef # "null" THEN Append(sent, ev) ELSE sent

\* The history variable sentSessions once the transport holds `sent`
SentOn(sessions, sent) ==
  sessions \o [i \in 1..(Len(sent) - Len(sessions)) |-> connects]

\* The effect on the agent set, the agent name and the session status: the
\* 'Agent: <name>' breadcrumb, updateSession and, unless a handoff caused the change,
\* the simulated 'hi' of sendSimulatedUserMessage
AgentEffect ==
  /\ "agent" \in pendingEffects /\ "connect" \notin pendingEffects
  /\ pendingEffects' = pendingEffects \ {"agent"}
  /\ IF sessionStatus = "CONNECTED" /\ selectedAgentConfigSet # "null"
        /\ Truthy(selectedAgentName)
     THEN /\ handoffTriggeredRef' = FALSE
          /\ LET crumb == addTranscriptBreadcrumb(transcriptItems, nextUuid + 1,
                            <<"Agent: ", selectedAgentName>>,
                            IF selectedAgentName \in Elements(allAgentSets[selectedAgentConfigSet])
                            THEN <<selectedAgentName>> ELSE NoText)
             IN  IF handoffTriggeredRef
                 THEN /\ transcriptItems' = crumb
                      /\ nextUuid' = nextUuid + 1
                      /\ sentEvents' = sendEvent(sentEvents, "session.update")
                      /\ UNCHANGED loggedEvents
                 ELSE /\ transcriptItems' =
                           addTranscriptMessage(crumb, <<"uuid", nextUuid + 2>>, "user",
                                                <<"hi">>, TRUE)
                      /\ nextUuid' = nextUuid + 2
                      /\ sentEvents' =
                           sendEvent(sendEvent(sendEvent(sentEvents, "session.update"),
                                               "conversation.item.create"), "response.create")
                      /\ loggedEvents' = LogAll(loggedEvents,
                           << <<"client", "conversation.item.create">>,
                              <<"client", "response.create (simulated user text message)">> >>)
     ELSE UNCHANGED <<handoffTriggeredRef, transcriptItems, nextUuid, sentEvents, loggedEvents>>
  /\ sentSessions' = SentOn(sentSessions, sentEvents')
  /\ UNCHANGED <<agentConfig, selectedAgentName, selectedAgentConfigSet, sessionStatus,
                 status, sessionRef, connectPc, connects, handoffs,
                 history, guardrail, guardrailOutput, deltaLog, supVars, scenarioVars, cartVars,
                 isPTTActive, isPTTUserSpeaking, createdSessions>>

\* handleAgentHandoff and the App's onAgentHandoff; the handler throws before the
\* callback when the last item has no name
onAgentHandoff(agentName) ==
  /\ handoffTriggeredRef' = TRUE
  /\ selectedAgentName' = agentName

AgentHandoff(lastMessage) ==
  /\ EffectsFlushed
  /\ sessionRef # "null" /\ status = "CONNECTED"
  /\ handoffs < MaxHandoffs
  /\ handoffs' = handoffs + 1
  /\ IF lastMessage.name = NoText
     THEN UNCHANGED <<handoffTriggeredRef, selectedAgentName>>
     ELSE onAgentHandoff(SplitSecond(lastMessage.name))
  /\ pendingEffects' = IF selectedAgentName' # selectedAgentName
                       THEN pendingEffects \cup {"connect", "agent"} ELSE pendingEffects
  /\ UNCHANGED <<agentConfig, selectedAgentConfigSet, sessionStatus, status, sessionRef,
                 connectPc, sentEvents, connects, transcriptVars, supVars, scenarioVars, cartVars, pttVars, createdSessions>>

\* disconnectFromRealtime (the toggle while connected or connecting)
disconnectFromRealtime ==
  /\ createdSessions' = IF sessionRef # "null"
                 THEN [createdSessions EXCEPT ![Len(createdSessions)].closed = TRUE] ELSE createdSessions
  /\ sessionRef' = "null"
  /\ status' = "DISCONNECTED"
  /\ sessionStatus' = "DISCONNECTED"
  /\ loggedEvents' = addLoggedEvent(loggedEvents, "client", "DISCONNECTED", NoEventId)
  /\ isPTTUserSpeaking' = FALSE

\* onToggleConnection
ToggleConnection ==
  /\ EffectsFlushed
  /\ connects < MaxConnects
  /\ \/ /\ sessionStatus \in {"CONNECTED", "CONNECTING"}
        /\ disconnectFromRealtime
        /\ UNCHANGED <<connectPc, connects>>
     \/ /\ sessionStatus = "DISCONNECTED"
        /\ connectPc = "none"      \* one connectToRealtime in flight at a time
        /\ connectToRealtime
        /\ connects' = connects + 1
        /\ UNCHANGED <<sessionRef, status, isPTTUserSpeaking, createdSessions>>
  /\ pendingEffects' = IF sessionStatus' # sessionStatus
                       THEN pendingEffects \cup {"agent"} ELSE pendingEffects
  /\ UNCHANGED <<agentConfig, selectedAgentName, selectedAgentConfigSet,
                 handoffTriggeredRef, sentEvents, handoffs,
                 transcriptItems, history, nextUuid, guardrail, guardrailOutput, deltaLog, supVars, scenarioVars, cartVars,
                 isPTTActive, sentSessions>>

\* sendClientEvent: sendEvent, then logClientEvent under the type and the suffix
sendClientEvent(ev, eventNameSuffix) ==
  /\ sentEvents' = sendEvent(sentEvents, ev)
  /\ loggedEvents' = addLoggedEvent(loggedEvents, "client", <<ev, eventNameSuffix>>, NoEventId)

\* The push-to-talk checkbox: setIsPTTActive(e.target.checked)
SetIsPTTActive(checked) ==
  /\ EffectsFlushed
  /\ Len(sentEvents) < MaxSent
  /\ isPTTActive' = checked
  /\ pendingEffects' = IF checked # isPTTActive THEN pendingEffects \cup {"ptt"}
                       ELSE pendingEffects
  /\ UNCHANGED <<agentConfig, selectedAgentName, selectedAgentConfigSet, sessionStatus,
                 status, handoffTriggeredRef, sessionRef, connectPc, sentEvents, connects,
                 handoffs, transcriptVars, supVars, scenarioVars, cartVars,
                 isPTTUserSpeaking, sentSessions, createdSessions>>

\* The effect on isPTTActive: updateSession() while connected
PTTEffect ==
  /\ pendingEffects = {"ptt"}
  /\ pendingEffects' = {}
  /\ sentEvents' = IF sessionStatus = "CONNECTED" THEN sendEvent(sentEvents, "session.update")
                   ELSE sentEvents
  /\ sentSessions' = SentOn(sentSessions, sentEvents')
  /\ UNCHANGED <<agentConfig, selectedAgentName, selectedAgentConfigSet, sessionStatus,
                 status, handoffTriggeredRef, sessionRef, connectPc, connects, handoffs,
                 transcriptVars, supVars, scenarioVars, cartVars,
                 isPTTActive, isPTTUserSpeaking, createdSessions>>

\* handleTalkButtonDown; the button is disabled unless isPTTActive
handleTalkButtonDown ==
  /\ EffectsFlushed
  /\ isPTTActive
  /\ sessionStatus = "CONNECTED"
  /\ Len(sentEvents) < MaxSent /\ Len(loggedEvents) < MaxTalkLog
  /\ isPTTUserSpeaking' = TRUE
  /\ sendClientEvent("input_audio_buffer.clear", "clear PTT buffer")
  /\ sentSessions' = SentOn(sentSessions, sentEvents')
  /\ UNCHANGED <<agentConfig, selectedAgentName, selectedAgentConfigSet, sessionStatus,
                 status, handoffTriggeredRef, sessionRef, connectPc, pendingEffects, connects,
                 handoffs, transcriptItems, history, nextUuid, guardrail, guardrailOutput,
                 deltaLog, supVars, scenarioVars, cartVars, isPTTActive, createdSessions>>

\* The test that lets handleTalkButtonUp go on
TalkButtonUpGoesOnWhileConnected == sessionStatus = "CONNECTED"

TalkButtonUpGoesOn == sessionStatus = "CONNECTED" /\ isPTTUserSpeaking

\* handleTalkButtonUp
handleTalkButtonUp ==
  /\ EffectsFlushed
  /\ isPTTActive
  /\ TalkButtonUpGoesOn
  /\ Len(sentEvents) + 1 < MaxSent /\ Len(loggedEvents) + 1 < MaxTalkLog
  /\ isPTTUserSpeaking' = FALSE
  /\ sentEvents' = sendEvent(sendEvent(sentEvents, "input_audio_buffer.commit"),
                             "response.create")
  /\ loggedEvents' = LogAll(loggedEvents,
       << <<"client", <<"input_audio_buffer.commit", "commit PTT">> >>,
          <<"client", <<"response.create", "trigger response PTT">> >> >>)
  /\ sentSessions' = SentOn(sentSessions, sentEvents')
  /\ UNCHANGED <<agentConfig, selectedAgentName, selectedAgentConfigSet, sessionStatus,
                 status, handoffTriggeredRef, sessionRef, connectPc, pendingEffects, connects,
                 handoffs, transcriptItems, history, nextUuid, guardrail, guardrailOutput,
                 deltaLog, supVars, scenarioVars, cartVars, isPTTActive, createdSessions>>

AppNext ==
  \/ MountEffect
  \/ ConnectEffect
  \/ \E outcome \in {"key", "no_key", "fetch_rejects"} : KeyFetched(outcome)
  \/ \E ok \in BOOLEAN : SdkConnectSettles(ok)
  \/ AgentEffect
  \/ \E lastMessage \in HandoffLastItems(ConnectedAgents) : AgentHandoff(lastMessage)
  \/ ToggleConnection

\* The page as loaded
Init == TranscriptInit /\ SupIdle /\ AppInit /\ ScenarioLoaded /\ CartInit

SpecApp == Init /\ [][AppNext]_vars

\* The events that reconcile the transcript with the session, their inputs drawn
\* from the given sets
ReconcileNext(ids, roles, contents, fragments, transcripts) ==
  \/ \E item \in HistoryMessages(ids, roles), content \in contents :
        HistoryAdded(item, content)
  \/ \E i \in 1..Len(history), content \in contents :
        HistoryUpdated(<<[itemId |-> history[i].itemId, type |-> history[i].type,
                         content |-> content]>>)
  \/ \E id \in ids \cup {NoId}, delta \in fragments :
        TranscriptionDelta(id, delta)
  \/ \E id \in ids \cup {NoId}, transcript \in transcripts :
        TranscriptionCompleted(id, transcript)

BreadcrumbNext(ids) ==
  \/ \E item \in HistoryFunctionCalls(ids) : HistoryAdded(item, << >>)
  \/ \E functionCall \in ToolCalls : AgentToolStart(functionCall)
  \/ \E functionCall \in ToolCalls : AgentToolEnd(functionCall, <<"result">>)

GuardrailNext(ids) ==
  \/ \E id \in ids : GuardrailRun(id)
  \/ \E id \in ids, outcome \in ClassifierOutcomes : GuardrailResolve(id, outcome)

\* Every event that writes the transcript, over texts of one letter
TranscriptNext ==
  \/ ReconcileNext({<<"item", 1>>} \cup SimIds, Roles,
        {<< >>, <<[type |-> "input_text", text |-> <<FailureOpen, FailureClose>>]>>},
        {<<"a">>}, {<<"a">>})
  \/ BreadcrumbNext({<<"item", 2>>})
  \/ GuardrailNext({<<"item", 1>>})

Next == TranscriptNext \/ AgentEffect

\* The default scenario, connected, nothing received yet
InitOpen == TranscriptInit /\ SupIdle /\ AppOpen /\ ScenarioLoaded /\ CartInit

Spec == InitOpen /\ [][Next]_vars

\* The text-carrying events, over texts of two letters
TextNext ==
  \/ ReconcileNext(ItemIds, Roles, {<< >>, <<[type |-> "input_text", text |-> <<"a">>]>>},
        Fragments \cup {<< >>, NoText}, {<<"a">>, << >>, NoText, Newline})
  \/ \E functionCall \in ToolCalls : AgentToolStart(functionCall)

SpecText == InitOpen /\ [][TextNext \/ AgentEffect]_vars

SupNext == SupExecute \/ SupSettle \/ AgentEffect

\* The function calls of the history
FunctionCallsOf(h) == {h[i] : i \in {j \in 1..Len(h) : h[j].type = "function_call"}}

\* Messages and function calls join the history, and the tools of the calls in it
\* start and end
ToolsNext ==
  \/ \E item \in HistoryMessages(ItemIds, Roles) \cup HistoryFunctionCalls(ItemIds),
        content \in {<< >>, <<[type |-> "input_text", text |-> <<"a">>]>>} :
        HistoryAdded(item, content)
  \/ \E functionCall \in FunctionCallsOf(history) : AgentToolStart(functionCall)
  \/ \E functionCall \in FunctionCallsOf(history) : AgentToolEnd(functionCall, <<"result">>)
  \/ AgentEffect

SpecTools == InitOpen /\ [][ToolsNext]_vars

\* Connected, the supervisor tool about to be called against some script of answers
InitSupervisor == TranscriptInit /\ SupInit /\ AppOpen /\ ScenarioLoaded /\ CartInit

SpecSupervisor == InitSupervisor /\ [][SupNext]_vars

\* The transport events and the Events pane, with the assistant message that the
\* transcription events are about
EventsNext ==
  \/ \E item \in HistoryMessages({<<"item", 1>>}, {"assistant"}) : HistoryAdded(item, << >>)
  \/ \E id \in ItemIds \cup {NoId} : TranscriptionDelta(id, <<"a">>)
  \/ \E id \in ItemIds \cup {NoId} : TranscriptionCompleted(id, <<"a">>)
  \/ \E type \in OtherTransportTypes, withEventId \in BOOLEAN :
        OtherTransportEvent(type, withEventId)
  \/ \E i \in 1..Len(loggedEvents) : ToggleExpand(i)
  \/ GuardrailNext({<<"item", 1>>})
  \/ AgentEffect

SpecEvents == InitOpen /\ [][EventsNext]_vars

\* The output guardrail over two assistant messages and every classifier answer
ModerationNext ==
  \/ \E item \in HistoryMessages(ItemIds, {"assistant"}),
        content \in {<< >>, <<[type |-> "input_text", text |-> <<FailureOpen, FailureClose>>]>>} :
        HistoryAdded(item, content)
  \/ \E id \in ItemIds : TranscriptionCompleted(id, <<"a">>)
  \/ \E id \in ItemIds : GuardrailRun(id)
  \/ \E id \in ItemIds, outcome \in ClassifierAnswers : GuardrailResolve(id, outcome)
  \/ AgentEffect

SpecModeration == InitOpen /\ [][ModerationNext]_vars

\* An escalation in flight while the user disconnects and connects again
CancelNext ==
  \/ SupExecute
  \/ SupSettle
  \/ AgentEffect
  \/ ToggleConnection
  \/ \E outcome \in {"key", "no_key", "fetch_rejects"} : KeyFetched(outcome)
  \/ \E ok \in BOOLEAN : SdkConnectSettles(ok)

SpecCancel == InitSupervisor /\ [][CancelNext]_vars

\* The scenario module about to be evaluated
InitScenario == TranscriptInit /\ SupIdle /\ AppInit /\ ScenarioInit /\ CartInit

SpecScenario == InitScenario /\ [][ScenarioNext]_vars

\* The page loaded with the intelligentMaterialOrdering scenario: connections and the
\* tools of its agent
InitCart ==
  /\ TranscriptInit /\ SupIdle /\ AppInit /\ ScenarioLoaded /\ CartInit
  /\ agentConfig = "intelligentMaterialOrdering"

CartNext ==
  \/ CartTools
  \/ MountEffect
  \/ ConnectEffect
  \/ \E outcome \in {"key", "no_key", "fetch_rejects"} : KeyFetched(outcome)
  \/ \E ok \in BOOLEAN : SdkConnectSettles(ok)
  \/ AgentEffect
  \/ ToggleConnection

SpecCart == InitCart /\ [][CartNext]_vars

\* The default scenario, connected: the push-to-talk controls, disconnecting and
\* connecting again
PTTNext ==
  \/ \E checked \in BOOLEAN : SetIsPTTActive(checked)
  \/ PTTEffect
  \/ handleTalkButtonDown
  \/ handleTalkButtonUp
  \/ ToggleConnection
  \/ \E outcome \in {"key", "no_key", "fetch_rejects"} : KeyFetched(outcome)
  \/ \E ok \in BOOLEAN : SdkConnectSettles(ok)
  \/ AgentEffect

SpecPTT == InitOpen /\ [][PTTNext]_vars

\* validateMaterialOrder over its inputs
InitValidate == TranscriptInit /\ SupIdle /\ AppInit /\ ScenarioLoaded /\ ValidateCalled

SpecValidate == InitValidate /\ [][ValidateSettles]_vars

\* validateMaterialSpecs over its inputs
InitSpecs == TranscriptInit /\ SupIdle /\ AppInit /\ ScenarioLoaded /\ SpecsCalled

SpecSpecs == InitSpecs /\ [][SpecsSettles]_vars

(* ------------------------------- properties --------------------------- *)

MessagesWithId(items, itemId) ==
  {i \in 1..Len(items) : items[i].itemId = itemId /\ items[i].type = "MESSAGE"}

\* C1: adding a message twice under one itemId leaves exactly one MESSAGE entry for
\* it; a call for an itemId that already has a MESSAGE entry changes nothing, and a
\* call for a new itemId appends one IN_PROGRESS entry with the given text.
C1_IdempotentInsert ==
  \A itemId \in MsgIds, role \in Roles, text \in {<< >>, <<"a">>}, isHidden \in BOOLEAN :
    LET once == addTranscriptMessage(transcriptItems, itemId, role, text, isHidden)
    IN  /\ Cardinality(MessagesWithId(once, itemId)) = 1
        /\ HasMessage(transcriptItems, itemId) => once = transcriptItems
        /\ ~HasMessage(transcriptItems, itemId) =>
             /\ Len(once) = Len(transcriptItems) + 1
             /\ SubSeq(once, 1, Len(transcriptItems)) = transcriptItems
             /\ once[Len(once)].status = "IN_PROGRESS"
             /\ once[Len(once)].title = text
        /\ \A role2 \in Roles, text2 \in {<< >>, <<"b">>} :
             addTranscriptMessage(once, itemId, role2, text2, ~isHidden) = once

\* A message of the server sits beside the simulated one, and the other server id
\* has none yet
C1_Witness ==
  /\ HasMessage(transcriptItems, <<"item", 1>>)
  /\ ~HasMessage(transcriptItems, <<"item", 2>>)
  /\ \E i \in 1..Len(history) : history[i].itemId = <<"item", 1>>
  /\ \E i \in 1..Len(transcriptItems) : transcriptItems[i].isHidden

\* C2: whatever events arrive (history added / updated, deltas, completions, tool
\* breadcrumbs, guardrail trips, the simulated message), no two transcript entries
\* share an itemId.
C2_UniqueItemIds ==
  \A i, j \in 1..Len(transcriptItems) :
    i # j => transcriptItems[i].itemId # transcriptItems[j].itemId

\* The simulated message has been echoed into the history, a server message carries
\* a guardrail result and a tool breadcrumb follows
C2_Witness ==
  /\ \E i \in 1..Len(history) : history[i].itemId \in SimIds
  /\ \E i \in 1..Len(transcriptItems) :
       /\ transcriptItems[i].type = "MESSAGE"
       /\ transcriptItems[i].guardrailResult.status = "DONE"
  /\ \E i \in 1..Len(transcriptItems) :
       /\ transcriptItems[i].type = "BREADCRUMB"
       /\ Head(transcriptItems[i].title) = "function call result: "
  /\ \E i \in 1..Len(transcriptItems) :
       transcriptItems[i].type = "MESSAGE" /\ transcriptItems[i].isHidden

\* C3: the text of a MESSAGE entry is the text it had before the first of the deltas
\* appended since, followed by those deltas in order, however the deltas of other
\* ids and breadcrumb insertions interleave.
C3_DeltaAccumulation ==
  \A id \in ItemIds :
    HasMessage(transcriptItems, id) =>
      TitleOf(transcriptItems, id) = deltaLog[id].base \o deltaLog[id].appended

\* Two deltas on one message, a delta on the other, and a tool breadcrumb between
\* the two entries
C3_Witness ==
  /\ deltaLog[<<"item", 1>>].appended = <<"a", "b">>
  /\ deltaLog[<<"item", 2>>].appended = <<"b">>
  /\ \E i, j, k \in 1..Len(transcriptItems) :
       /\ i < j /\ j < k
       /\ transcriptItems[i].itemId = <<"item", 1>>
       /\ transcriptItems[j].type = "BREADCRUMB"
       /\ Head(transcriptItems[j].title) = "function call: "
       /\ transcriptItems[k].itemId = <<"item", 2>>

FinalTranscripts == {<<"a">>, << >>, NoText, Newline}

\* C4: a transcription-completed event for an existing MESSAGE entry sets its text to
\* the transcript, or to '[inaudible]' when the transcript is missing, empty or a
\* single newline, and sets its status to DONE.
C4_Finalize ==
  [][\A id \in ItemIds, transcript \in FinalTranscripts :
       TranscriptionCompleted(id, transcript) /\ HasMessage(transcriptItems, id) =>
         /\ EntryOf(transcriptItems', id).status = "DONE"
         /\ EntryOf(transcriptItems', id).title =
              IF transcript \in {NoText, << >>, Newline} THEN Inaudible ELSE transcript
         /\ Len(transcriptItems') = Len(transcriptItems)]_vars

\* One message finalized as inaudible, the other with its transcript
C4_Witness ==
  /\ HasMessage(transcriptItems, <<"item", 1>>)
  /\ EntryOf(transcriptItems, <<"item", 1>>).status = "DONE"
  /\ EntryOf(transcriptItems, <<"item", 1>>).title = Inaudible
  /\ HasMessage(transcriptItems, <<"item", 2>>)
  /\ EntryOf(transcriptItems, <<"item", 2>>).status = "DONE"
  /\ EntryOf(transcriptItems, <<"item", 2>>).title = <<"a">>

\* C5: once a message entry is finalized and the guardrail classifier has returned a
\* category for it, in either order, the entry carries a guardrail result of status
\* DONE with a category (NONE when nothing was flagged).
C5_GuardrailRaceSafety ==
  \A id \in ItemIds :
    ( /\ guardrail[id] \in MODERATION_CATEGORIES
      /\ HasMessage(transcriptItems, id)
      /\ EntryOf(transcriptItems, id).status = "DONE" ) =>
        /\ EntryOf(transcriptItems, id).guardrailResult.status = "DONE"
        /\ EntryOf(transcriptItems, id).guardrailResult.category \in MODERATION_CATEGORIES

DispatchCount == Cardinality({i \in 1..Len(supLog) : supLog[i][1] = "dispatch"})

CallsOfAnswer(k) ==
  SelectSeq(script[k].output, LAMBDA item : item.type = "function_call")

C7_EscalationNeverThrows ==
  supPc = "done" => supResult.kind \in {"nextResponse", "error"}

\* C8: the loop stops at a maximum iteration count: with every response of the
\* script carrying a function call, the escalation has returned by the time the
\* script is used up instead of issuing one more request.
C8_BoundedEscalation ==
  requests > MaxScript => supPc = "done"

\* C9: when a request is answered with a non-success status, at whatever iteration,
\* execute returns {error: 'Something went wrong.'}, and no dispatch or request
\* follows that answer.
C9_FailClosed ==
  (supPc = "done" /\ script[requests].kind = "http_error") =>
    /\ supResult = ErrorMarker
    /\ supLog[Len(supLog)] = RequestEvent(requests)
    /\ DispatchCount = Len(Concat([k \in 1..(requests - 1) |-> CallsOfAnswer(k)]))
    /\ Len(bodyInput) = 2 * DispatchCount
    /\ ~ENABLED (SupExecute \/ SupSettle)

\* The second request fails after one dispatch, with an answer left unused
C9_Witness ==
  /\ supPc = "done" /\ requests = 2 /\ Len(script) = 3
  /\ script[2].kind = "http_error"
  /\ DispatchCount = 1
  /\ supResult = ErrorMarker

\* C10: a handoff event leaves the selected agent name among the agents of the
\* selected scenario (a name that is not among them leaves the selection as it was).
C10_HandoffSafety ==
  [][handoffs' = handoffs + 1 /\ selectedAgentConfigSet # "null" =>
       selectedAgentName' \in Elements(allAgentSets[selectedAgentConfigSet])]_vars

\* C11: a scenario whose agents hand off to an agent outside it is never built:
\* every handoff edge of a member of an exported scenario leads to a member.
C11_HandoffGraphValidation ==
  scenario # << >> =>
    \A i \in 1..Len(scenario) :
      Elements(agentHandoffs[scenario[i]]) \subseteq Elements(scenario)

\* C12: every transport event received from the session (the transcription delta,
\* the two transcription-completed events and every other type) appends exactly one
\* entry to the event log, whatever it does to the transcript.
C12_EventLogCompleteness ==
  [][( \/ \E id \in ItemIds \cup {NoId} : TranscriptionDelta(id, <<"a">>)
       \/ \E id \in ItemIds \cup {NoId} : TranscriptionCompleted(id, <<"a">>)
       \/ \E type \in OtherTransportTypes, withEventId \in BOOLEAN :
             OtherTransportEvent(type, withEventId) )
      => Len(loggedEvents') = Len(loggedEvents) + 1]_vars

NoEntry(id) == \A i \in 1..Len(transcriptItems) : transcriptItems[i].itemId # id

\* C13: a transcription delta or completion whose item id matches no transcript
\* entry is handled without a throw, leaves the transcript as it is, and is reported:
\* the event reaches the event log. No handling of such an event does otherwise.
C13_OrderingError ==
  \A id \in ItemIds :
    NoEntry(id) =>
      /\ ~ENABLED ( /\ TranscriptionDelta(id, <<"a">>)
                    /\ ~ ( /\ transcriptItems' = transcriptItems
                           /\ Len(loggedEvents') = Len(loggedEvents) + 1 ) )
      /\ ~ENABLED ( /\ TranscriptionCompleted(id, <<"a">>)
                    /\ ~ ( /\ transcriptItems' = transcriptItems
                           /\ Len(loggedEvents') = Len(loggedEvents) + 1 ) )

SameButExpanded(e, f) == [e EXCEPT !.expanded = FALSE] = [f EXCEPT !.expanded = FALSE]

\* C14: the event log is append-only: in every step the entries logged before keep
\* their places and all their fields except the expanded flag, and the log does not
\* get shorter.
C14_AppendOnly ==
  [][ /\ Len(loggedEvents') >= Len(loggedEvents)
      /\ \A i \in 1..Len(loggedEvents) :
            SameButExpanded(loggedEvents'[i], loggedEvents[i]) ]_vars

\* The connection's entry and a server-numbered transport event expanded, and the
\* guardrail's entry logged after them
C14_Witness ==
  /\ Len(loggedEvents) = MaxLogged + 1
  /\ loggedEvents[4].eventName = "CONNECTED" /\ loggedEvents[4].expanded
  /\ ~loggedEvents[6].expanded
  /\ loggedEvents[7].eventName = "response.done" /\ loggedEvents[7].expanded
  /\ loggedEvents[7].id = <<"event", 7>>
  /\ loggedEvents[8].eventName = "guardrail_tripped"

\* C15: the guardrail's execute never rejects; it settles with tripwireTriggered
\* true exactly when the classifier call succeeded with a category other than NONE,
\* and false both for NONE and for a failed call, whose outputInfo (an error marker,
\* no category) differs from that of a NONE classification.
C15_GuardrailFailOpen ==
  \A id \in ItemIds :
    guardrail[id] \notin {"idle", "running"} =>
      /\ guardrailOutput[id].kind = "resolved"
      /\ guardrailOutput[id].tripwireTriggered <=>
            guardrail[id] \in MODERATION_CATEGORIES \ {"NONE"}
      /\ guardrail[id] = "failed" =>
            /\ guardrailOutput[id].outputInfo.error = "guardrail_failed"
            /\ guardrailOutput[id].outputInfo.moderationCategory = "undefined"
      /\ guardrail[id] \in MODERATION_CATEGORIES =>
            /\ guardrailOutput[id].outputInfo.error = "undefined"
            /\ guardrailOutput[id].outputInfo.moderationCategory = guardrail[id]

\* One message's classification failed and the other's returned NONE
C15_Witness ==
  /\ guardrail[<<"item", 1>>] = "failed"
  /\ guardrail[<<"item", 2>>] = "NONE"
  /\ guardrailOutput[<<"item", 1>>].outputInfo # guardrailOutput[<<"item", 2>>].outputInfo
  /\ ~guardrailOutput[<<"item", 1>>].tripwireTriggered
  /\ ~guardrailOutput[<<"item", 2>>].tripwireTriggered

\* The place, in the history an event carries, of its last assistant message (0: none)
LastAssistant(h) ==
  IF \E i \in 1..Len(h) : h[i].type = "message" /\ h[i].role = "assistant"
  THEN CHOOSE i \in 1..Len(h) :
         /\ h[i].type = "message" /\ h[i].role = "assistant"
         /\ \A j \in (i + 1)..Len(h) : ~(h[j].type = "message" /\ h[j].role = "assistant")
  ELSE 0

C17_Cancellation ==
  [][sessionRef = "null" /\ sessionStatus = "DISCONNECTED" =>
       transcriptItems' = transcriptItems]_vars

\* C18: an agentConfig key that names no configured agent set is fatal where it is
\* selected: no step taken under such a key replaces it by another scenario's key,
\* selects agents or starts a session.
C18_ConfigurationError ==
  [][agentConfig # "" /\ agentConfig \notin DOMAIN allAgentSets =>
       /\ agentConfig' = agentConfig
       /\ selectedAgentConfigSet' = "null"
       /\ sessionStatus' = "DISCONNECTED" /\ connectPc' = "none"]_vars

\* C19: breadcrumbs are never deduplicated: a call of addTranscriptBreadcrumb, also
\* one that repeats the title and data of a breadcrumb already there, makes the
\* transcript one entry longer by appending a BREADCRUMB entry of status DONE under
\* an id no entry has, and leaves the entries before it as they were.
C19_BreadcrumbsNotDeduplicated ==
  \A title \in {transcriptItems[i].title : i \in 1..Len(transcriptItems)}
               \cup {<<"function call: ", "lookup">>},
     data \in {transcriptItems[i].data : i \in 1..Len(transcriptItems)} :
    LET once == addTranscriptBreadcrumb(transcriptItems, nextUuid + 1, title, data)
        twice == addTranscriptBreadcrumb(once, nextUuid + 2, title, data)
    IN  /\ Len(once) = Len(transcriptItems) + 1
        /\ SubSeq(once, 1, Len(transcriptItems)) = transcriptItems
        /\ once[Len(once)].type = "BREADCRUMB" /\ once[Len(once)].status = "DONE"
        /\ once[Len(once)].title = title /\ once[Len(once)].data = data
        /\ \A i \in 1..Len(transcriptItems) :
             transcriptItems[i].itemId # once[Len(once)].itemId
        /\ Len(twice) = Len(once) + 1
        /\ SubSeq(twice, 1, Len(once)) = once
        /\ twice[Len(twice)].itemId # once[Len(once)].itemId

\* The supervisor has dispatched the same tool with the same arguments twice: two
\* breadcrumbs of one title and data stand in the transcript under different ids
C19_Witness ==
  \E i, j \in 1..Len(transcriptItems) :
    /\ i < j
    /\ transcriptItems[i].type = "BREADCRUMB" /\ transcriptItems[j].type = "BREADCRUMB"
    /\ transcriptItems[i].title = <<"[supervisorAgent] function call: ", "getContractorAccountInfo">>
    /\ transcriptItems[j].title = transcriptItems[i].title
    /\ transcriptItems[j].data = transcriptItems[i].data
    /\ transcriptItems[j].itemId # transcriptItems[i].itemId

\* A user entry of the given id with empty text and status IN_PROGRESS
PendingUserEntry(items, id) ==
  /\ HasMessage(items, id)
  /\ EntryOf(items, id).role = "user"
  /\ EntryOf(items, id).title = << >>
  /\ EntryOf(items, id).status = "IN_PROGRESS"

\* C20: a history-added event for a user message without text leaves an entry for
\* the item with empty text and status IN_PROGRESS, and the entry stays so in every
\* step that is not a delta, an update or a completion for its id.
C20_PendingUserEntry ==
  [][\A id \in ItemIds :
       /\ ( /\ \E item \in HistoryMessages({id}, {"user"}) : HistoryAdded(item, << >>)
            /\ ~HasMessage(transcriptItems, id) )
            => PendingUserEntry(transcriptItems', id)
       /\ ( /\ PendingUserEntry(transcriptItems, id)
            /\ ~ \E delta \in Fragments \cup {<< >>, NoText} : TranscriptionDelta(id, delta)
            /\ ~ \E transcript \in FinalTranscripts : TranscriptionCompleted(id, transcript)
            /\ ~ \E i \in 1..Len(history) :
                   HistoryUpdated(<<[itemId |-> id, type |-> history[i].type,
                                    content |-> <<[type |-> "input_text", text |-> <<"a">>]>>]>>) )
            => PendingUserEntry(transcriptItems', id)]_vars

\* The quantities the addToCart calls gave, 1 for a call that gave none
RECURSIVE QuantitiesGiven(_)
QuantitiesGiven(calls) ==
  IF calls = << >> THEN 0
  ELSE (IF Head(calls).input = << >> THEN 1 ELSE Head(calls).input[1])
       + QuantitiesGiven(Tail(calls))

AddsThenView ==
  /\ toolCalls # << >>
  /\ toolCalls[Len(toolCalls)].tool = "viewCart"
  /\ \A i \in 1..(Len(toolCalls) - 1) : toolCalls[i].tool = "addToCart"

\* C21: Cart totals: starting from an empty cart, a viewCart that follows a sequence
\* of addToCart calls reports total_items equal to the number of those calls and
\* total_line_items equal to the sum of the quantities they gave, counting 1 for
\* each call that gave no quantity.
C21_CartTotals ==
  AddsThenView =>
    /\ toolResult.total_items = Len(toolCalls) - 1
    /\ toolResult.total_line_items = QuantitiesGiven(SubSeq(toolCalls, 1, Len(toolCalls) - 1))

\* The step is a call of the tool
Calls(tool) ==
  /\ Len(toolCalls') = Len(toolCalls) + 1
  /\ toolCalls'[Len(toolCalls')].tool = tool

\* C22: Empty-cart submit: submitOrder called while the cart is empty returns
\* success=false with the error 'Cannot submit empty cart', generates no order
\* number, and leaves the cart empty.
C22_EmptyCartSubmit ==
  [][Calls("submitOrder") /\ CURRENT_CART = << >> =>
       /\ toolResult' = [success |-> FALSE, error |-> "Cannot submit empty cart"]
       /\ "order_number" \notin DOMAIN toolResult'
       /\ CURRENT_CART' = << >>]_vars

\* An order was submitted, which emptied the cart, and submitOrder was called again
C22_Witness ==
  /\ Len(toolCalls) = 3
  /\ toolCalls[1].tool = "addToCart"
  /\ toolCalls[2].tool = "submitOrder"
  /\ toolCalls[3].tool = "submitOrder"
  /\ ~toolResult.success
  /\ CURRENT_CART = << >>

\* The call settled was an EMT conduit request with no specifications and no
\* project info
EmtRequestSettled ==
  /\ toolResult # NoToolResult
  /\ includes(toLowerCase(toolCalls[1].input.material_type), "emt")
  /\ toolCalls[1].input.specifications = << >>
  /\ toolCalls[1].input.project_info = << >>

\* C23 as stated: Material order validation: for an EMT conduit request with no
\* specifications and no project info, validateMaterialOrder returns isValid=false,
\* missing_fields contains 'delivery address' and 'delivery date', and the warnings
\* list contains a message suggesting ordering in multiples of 10 feet.
C23_MaterialOrderValidation ==
  EmtRequestSettled =>
    /\ ~toolResult.validation_result.isValid
    /\ {"delivery address", "delivery date"}
         \subseteq Elements(toolResult.validation_result.missing_fields)
    /\ MultiplesSuggestion \in Elements(toolResult.validation_result.warnings)

\* C23 amended: for an EMT conduit request with no specifications and no project
\* info, validateMaterialOrder returns isValid=false, missing_fields contains
\* 'delivery address' and 'delivery date', and the suggestions list contains the
\* message suggesting ordering in multiples of 10; the warnings list holds only the
\* 10ft-minimum message, and only for a quantity between 0 and 10.
C23_Amended ==
  EmtRequestSettled =>
    /\ ~toolResult.validation_result.isValid
    /\ {"delivery address", "delivery date"}
         \subseteq Elements(toolResult.validation_result.missing_fields)
    /\ MultiplesSuggestion \in Elements(toolResult.validation_result.suggestions)
    /\ toolResult.validation_result.warnings =
         IF toolCalls[1].input.quantity > 0 /\ toolCalls[1].input.quantity < 10
         THEN <<MinimumWarning>> ELSE << >>

\* 100 ft of 1/2 EMT with nothing else given has settled
C23_Witness ==
  /\ EmtRequestSettled
  /\ toolCalls[1].input.material_type = <<"1/2 ", "EMT">>
  /\ toolCalls[1].input.quantity = 100
  /\ toolResult.validation_result.missing_fields =
       <<"size specification", "delivery address", "delivery date">>

\* The addToCart calls the session of the last call made itself
OwnAdds ==
  {i \in 1..Len(toolCalls) :
     /\ toolCalls[i].tool = "addToCart"
     /\ toolCalls[i].session = toolCalls[Len(toolCalls)].session}

\* C24: Cart isolation: cart state is scoped to a session; items added with
\* addToCart in one session are not visible to viewCart, removeFromCart or
\* submitOrder of another session. So viewCart reports no more items than its own
\* session added, and in a session that added nothing removeFromCart removes
\* nothing and submitOrder finds the cart empty.
C24_CartIsolation ==
  toolCalls # << >> =>
    LET last == toolCalls[Len(toolCalls)]
    IN  /\ last.tool = "viewCart" => toolResult.total_items <= Cardinality(OwnAdds)
        /\ last.tool = "removeFromCart" /\ OwnAdds = {} => ~toolResult.removed
        /\ last.tool = "submitOrder" /\ OwnAdds = {} => ~toolResult.success

\* The 'Agent: <name>' breadcrumbs of the transcript
AgentBreadcrumbs ==
  {i \in 1..Len(transcriptItems) :
     /\ transcriptItems[i].type = "BREADCRUMB"
     /\ Head(transcriptItems[i].title) = "Agent: "}

\* The connections that came up
ConnectionsUp ==
  {i \in 1..Len(loggedEvents) : loggedEvents[i].eventName = "CONNECTED"}

\* C26: Handoff breadcrumb: every agent-handoff event received while the session is
\* CONNECTED makes the named target the active agent and appends exactly one
\* breadcrumb titled 'Agent: <target>', including when the target equals the
\* currently selected agent. So once the effects have run the transcript holds one
\* 'Agent:' breadcrumb for each connection that came up and one for each handoff
\* event, and after a handoff the last of them names the selected agent.
C26_HandoffBreadcrumb ==
  EffectsFlushed =>
    /\ Cardinality(AgentBreadcrumbs) = Cardinality(ConnectionsUp) + handoffs
    /\ \A i \in AgentBreadcrumbs :
         (handoffs > 0 /\ \A j \in AgentBreadcrumbs : j <= i) =>
           transcriptItems[i].title = <<"Agent: ", selectedAgentName>>

\* The synthetic 'hi' messages of the transcript
SimulatedHis ==
  {i \in 1..Len(transcriptItems) :
     /\ transcriptItems[i].type = "MESSAGE"
     /\ transcriptItems[i].role = "user"
     /\ transcriptItems[i].title = <<"hi">>
     /\ transcriptItems[i].isHidden}

ItemCreates == {i \in 1..Len(sentEvents) : sentEvents[i] = "conversation.item.create"}

\* C27: Greeting priming: each time the session becomes CONNECTED by a connect of
\* the user, exactly one synthetic user message 'hi' is inserted into the transcript
\* with hidden=true and conversation.item.create and then response.create are sent;
\* a handoff sends no synthetic message. So once the effects have run there is one
\* hidden 'hi' and one conversation.item.create, followed by response.create, for
\* each connection that came up.
C27_GreetingPriming ==
  EffectsFlushed =>
    /\ Cardinality(SimulatedHis) = Cardinality(ConnectionsUp)
    /\ Cardinality(ItemCreates) = Cardinality(ConnectionsUp)
    /\ \A i \in ItemCreates : i < Len(sentEvents) /\ sentEvents[i + 1] = "response.create"

GuardrailBreadcrumbs ==
  {i \in 1..Len(transcriptItems) :
     /\ transcriptItems[i].type = "BREADCRUMB"
     /\ transcriptItems[i].title = <<"Output Guardrail Active">>}

HistoryMessageItems == {i \in 1..Len(history) : history[i].type = "message"}

\* C28: Corrective guardrail message: each distinct history item whose text holds
\* the marker 'Failure Details: {...}' produces exactly one 'Output Guardrail
\* Active' breadcrumb, also when its history-added event is delivered again, and
\* never a MESSAGE entry, also under later events for the same id. So there are
\* never more such breadcrumbs than distinct message items in the history, and no
\* MESSAGE entry shows a text with the marker.
C28_CorrectiveGuardrailMessage ==
  /\ Cardinality(GuardrailBreadcrumbs) <= Cardinality(HistoryMessageItems)
  /\ \A i \in 1..Len(transcriptItems) :
       transcriptItems[i].type = "MESSAGE" =>
         sketchilyDetectGuardrailMessage(transcriptItems[i].title) = NoText

Clear == "input_audio_buffer.clear"
Commit == "input_audio_buffer.commit"

\* Every commit sent follows a clear sent on the same connection, with no other
\* commit between them
Bracketed(sent, sessions) ==
  \A i \in 1..Len(sent) :
    sent[i] = Commit =>
      \E j \in 1..(i - 1) :
        /\ sent[j] = Clear
        /\ sessions[j] = sessions[i]
        /\ \A k \in (j + 1)..(i - 1) : sent[k] # Commit

\* C29: Push-to-talk bracketing: in every sequence of talk-button down/up, connect
\* and disconnect actions, every input_audio_buffer.commit sent is preceded by an
\* input_audio_buffer.clear sent in the same connected session with no other commit
\* in between, and no clear or commit is sent while the session is not CONNECTED.
C29_PushToTalkBracketing ==
  [][/\ Bracketed(sentEvents', sentSessions')
     /\ (\E i \in (Len(sentEvents) + 1)..Len(sentEvents') : sentEvents'[i] \in {Clear, Commit})
          => sessionStatus = "CONNECTED" /\ status = "CONNECTED" /\ sessionRef # "null"]_vars

\* A turn begun on the first connection and cut by the disconnect, and a whole turn
\* on the second
C29_Witness ==
  \E i, j, k \in 1..Len(sentEvents) :
    /\ i < j /\ j < k
    /\ sentEvents[i] = Clear /\ sentSessions[i] = 1
    /\ sentEvents[j] = Clear /\ sentSessions[j] = 2
    /\ sentEvents[k] = Commit /\ sentSessions[k] = 2
    /\ \A m \in 1..Len(sentEvents) : sentEvents[m] = Commit => m = k

\* The titles of the supervisor's breadcrumbs, in transcript order
SupervisorTitles(items) ==
  LET crumbs == SelectSeq(items, LAMBDA e :
                  /\ e.type = "BREADCRUMB"
                  /\ Head(e.title) \in {"[supervisorAgent] function call: ",
                                        "[supervisorAgent] function call result: "})
  IN  [i \in 1..Len(crumbs) |-> crumbs[i].title]

\* The local dispatches of the escalation, in order
DispatchedNames ==
  LET dispatches == SelectSeq(supLog, LAMBDA e : e[1] = "dispatch")
  IN  [i \in 1..Len(dispatches) |-> dispatches[i][2]]

MessageEntries(items) == SelectSeq(items, LAMBDA e : e.type = "MESSAGE")

\* C30: Executor writes only breadcrumbs: a supervisor escalation that processes N
\* function calls appends exactly 2N breadcrumbs to the transcript through the
\* injected addTranscriptBreadcrumb callback (for each call a 'function call'
\* breadcrumb followed by its 'function call result' breadcrumb, in call order;
\* none when no callback was injected), and no step of it creates or modifies a
\* MESSAGE entry or touches an entry already there.
C30_ExecutorWritesOnlyBreadcrumbs ==
  [][/\ SupervisorTitles(transcriptItems') =
          IF hasBreadcrumb'
          THEN Concat([i \in 1..Len(DispatchedNames') |->
                 << <<"[supervisorAgent] function call: ", DispatchedNames'[i]>>,
                    <<"[supervisorAgent] function call result: ", DispatchedNames'[i]>> >>])
          ELSE << >>
     /\ (supLog' # supLog \/ supPc' # supPc) =>
          /\ MessageEntries(transcriptItems') = MessageEntries(transcriptItems)
          /\ SubSeq(transcriptItems', 1, Len(transcriptItems)) = transcriptItems]_vars

\* An escalation with the callback has returned after two dispatches: four
\* breadcrumbs of the supervisor beside the simulated 'hi'
C30_Witness ==
  /\ supPc = "done" /\ hasBreadcrumb
  /\ Len(DispatchedNames) = 2
  /\ Len(SupervisorTitles(transcriptItems)) = 4
  /\ Len(MessageEntries(transcriptItems)) = 1

(* ----------------------- final answer of the supervisor ---------------- *)

\* The output_text segments of the message items of a response, in order
OutputSegments(outputItems) ==
  Concat([i \in 1..Len(SelectSeq(outputItems, LAMBDA item : item.type = "message")) |->
    LET content == SelectSeq(outputItems, LAMBDA item : item.type = "message")[i].content
        texts == SelectSeq(content, LAMBDA c : c.type = "output_text")
    IN  [j \in 1..Len(texts) |-> texts[j].text]])

\* C31: Final answer assembly: when the final supervisor response contains no
\* function call, the returned answer is all of its textual output segments, in
\* order, joined by newlines, including when a single message item carries several
\* output_text segments.
C31_FinalAnswerAssembly ==
  (supPc = "done" /\ supResult.kind = "nextResponse") =>
    supResult.text = Join(OutputSegments(script[requests].output), Newline)

(* ----------------------- the session objects --------------------------- *)

\* The sessions constructed and not closed
Unclosed == {i \in 1..Len(createdSessions) : ~createdSessions[i].closed}

\* sessionRef.current is a session whose connect rejected
HoldsFailedSession ==
  sessionRef # "null" /\ createdSessions[Len(createdSessions)].failed

\* C32: Reconnect after a failed connect: if a connection attempt fails after the
\* session object was created (session.connect rejects), a later connect attempt
\* creates a new session and can reach CONNECTED; no state is reachable in which
\* every later connect() call returns without attempting a connection. Here: while
\* the hook holds a session whose connect rejected, an App that shows CONNECTING
\* has a connection attempt in flight.
C32_ReconnectAfterFailedConnect ==
  (HoldsFailedSession /\ sessionStatus = "CONNECTING") => connectPc # "none"

\* C33: Single live session: in every interleaving of connect() and disconnect()
\* calls, including a second connect() or a disconnect() issued while a first
\* connect() is still awaiting the ephemeral key, at most one un-closed
\* RealtimeSession exists at any time, and once all calls have completed the status
\* is CONNECTED exactly when an un-closed session exists.
C33_SingleLiveSession ==
  /\ Cardinality(Unclosed) <= 1
  /\ connectPc = "none" => (status = "CONNECTED" <=> Unclosed # {})

(* ----------------------- guardrail trips and the history --------------- *)

\* A step in which a running guardrail trips and 'guardrail_tripped' is handled
GuardrailTrips ==
  \E id \in DOMAIN guardrail :
    /\ guardrail[id] = "running" /\ guardrail'[id] # "running"
    /\ guardrailOutput'[id].tripwireTriggered

\* C34: Guardrail-trip handling does not disturb session history: handling a
\* guardrail-tripped event leaves the order and content of the history array it
\* receives unchanged, so that a second trip handled over the same array annotates
\* the same (most recent) assistant message as the first.
C34_TripLeavesHistory ==
  [][GuardrailTrips => history' = history]_vars

(* ----------------------- failing guardrail results --------------------- *)

\* An entry whose guardrailResult is DONE with a category other than NONE
FailingResult(entry) ==
  entry.guardrailResult.status = "DONE" /\ entry.guardrailResult.category # "NONE"

\* C35: A failing guardrail result is sticky: once a transcript entry's
\* guardrailResult has status DONE with a category other than NONE, no later
\* transcription-completed, transcription-delta or history-updated event for that
\* entry changes the guardrailResult (in particular finalization never resets it to
\* NONE). Every step in which no guardrail runs or settles, these events among
\* them, leaves the entry in its place with the guardrailResult it had.
C35_FailingResultSticky ==
  [][guardrail' = guardrail =>
       \A i \in 1..Len(transcriptItems) :
         FailingResult(transcriptItems[i]) =>
           /\ i <= Len(transcriptItems')
           /\ transcriptItems'[i].itemId = transcriptItems[i].itemId
           /\ transcriptItems'[i].guardrailResult = transcriptItems[i].guardrailResult]_vars

\* An assistant message annotated OFFENSIVE, finalized, its text then extended by a
\* delta
C35_Witness ==
  /\ HasMessage(transcriptItems, <<"item", 1>>)
  /\ EntryOf(transcriptItems, <<"item", 1>>).guardrailResult =
       [status |-> "DONE", category |-> "OFFENSIVE", rationale |-> "r", testText |-> "t"]
  /\ EntryOf(transcriptItems, <<"item", 1>>).status = "DONE"
  /\ EntryOf(transcriptItems, <<"item", 1>>).title = <<"a", "a">>
  /\ deltaLog[<<"item", 1>>] = [base |-> <<"a">>, appended |-> <<"a">>]

(* ----------------------- tool breadcrumbs ------------------------------ *)

\* C36: Tool breadcrumbs describe the call that is running: the 'function call:
\* <name>' breadcrumb added at tool start carries the name and arguments of the
\* function call that is starting, also when the same tool was already called
\* earlier in the session history with different arguments.
C36_ToolBreadcrumbOfRunningCall ==
  [][\A functionCall \in FunctionCallsOf(history) :
       AgentToolStart(functionCall) =>
         /\ transcriptItems'[Len(transcriptItems')].title =
              <<"function call: ", functionCall.name>>
         /\ transcriptItems'[Len(transcriptItems')].data = functionCall.arguments]_vars

(* ----------------------- selectable scenarios -------------------------- *)

\* C37: Every selectable scenario can connect: for every scenario key offered for
\* selection (every key of allAgentSets / scenarioConfigs), selecting it and
\* connecting starts a connection attempt (the status leaves DISCONNECTED); no
\* selectable scenario makes connectToRealtime return without doing anything.
C37_SelectableScenarioConnects ==
  [][(/\ connects' = connects + 1
      /\ agentConfig \in DOMAIN allAgentSets
      /\ sessionStatus = "DISCONNECTED" /\ connectPc = "none")
       => sessionStatus' # "DISCONNECTED"]_vars

(* ----------------------- submitting the cart --------------------------- *)

\* The last call before this step was of the tool
LastCalled(tool) ==
  Len(toolCalls) > 0 /\ toolCalls[Len(toolCalls)].tool = tool

\* C38: Submit empties the cart: submitOrder on a non-empty cart returns
\* success=true with an order summary that lists exactly the items that were in the
\* cart and whose total_line_items equals the total_line_items viewCart reported
\* just before, and afterwards the cart is empty, so an immediately repeated
\* submitOrder fails with 'Cannot submit empty cart'.
C38_SubmitEmptiesCart ==
  [][/\ (Calls("submitOrder") /\ CURRENT_CART # << >>) =>
          /\ toolResult'.success
          /\ Len(toolResult'.order_summary.items) = Len(CURRENT_CART)
          /\ \A i \in 1..Len(CURRENT_CART) :
               /\ toolResult'.order_summary.items[i].material_name =
                    MaterialName(CURRENT_CART[i].material_type)
               /\ toolResult'.order_summary.items[i].specifications =
                    CURRENT_CART[i].specifications
          /\ LastCalled("viewCart") =>
               /\ toolResult'.order_summary.total_line_items = toolResult.total_line_items
               /\ \A i \in 1..Len(CURRENT_CART) :
                    /\ toolResult'.order_summary.items[i].material_name =
                         toolResult.cart_items[i].material_name
                    /\ toolResult'.order_summary.items[i].quantity =
                         toolResult.cart_items[i].quantity
          /\ CURRENT_CART' = << >>
     /\ (Calls("submitOrder") /\ LastCalled("submitOrder") /\ toolResult.success) =>
          toolResult' = [success |-> FALSE, error |-> "Cannot submit empty cart"]]_vars

\* Two of one material were added, viewCart reported them, and the order submitted
\* next lists them and has emptied the cart
C38_Witness ==
  /\ Len(toolCalls) = 3
  /\ toolCalls[1].tool = "addToCart" /\ toolCalls[1].input = <<2>>
  /\ toolCalls[2].tool = "viewCart"
  /\ toolCalls[3].tool = "submitOrder"
  /\ toolResult.success
  /\ Len(toolResult.order_summary.items) = 1
  /\ toolResult.order_summary.total_line_items = 2
  /\ CURRENT_CART = << >>

(* ----------------------- validation verdicts --------------------------- *)

\* C39: Order validation verdict matches the missing-field list: for every input,
\* validateMaterialOrder returns isValid=true exactly when its missing_fields list
\* is empty (including for wire orders that lack a voltage rating).
C39_VerdictMatchesMissingFields ==
  toolResult # NoToolResult =>
    (toolResult.validation_result.isValid <=>
       toolResult.validation_result.missing_fields = << >>)

\* C40: Spec validation verdict: validateMaterialSpecs returns is_valid=true only
\* when no required field of the material type is missing and no provided field
\* violates its allowed-values rule.
C40_SpecVerdict ==
  (toolResult # NoToolResult /\ toolResult.is_valid) =>
    LET input == toolCalls[1].input
        catalog_item == MATERIAL_CATALOG[input.material_type]
    IN  /\ \A i \in 1..Len(catalog_item.required_fields) :
             FieldGiven(input.specifications, catalog_item.required_fields[i])
        /\ \A field \in DOMAIN catalog_item.validation_rules :
             (HasKey(input.specifications, field)
                /\ catalog_item.validation_rules[field].type = "enum")
               => input.specifications[field] \in catalog_item.validation_rules[field].values
====
